---- MODULE Spec2Model ----
(***************************************************************************)
(* Model of the module promise table of the Erg compiler                   *)
(* (crates/erg_compiler/module/promise.rs) and of the name / call          *)
(* resolution of crates/erg_compiler/context/inquire.rs.                   *)
(***************************************************************************)
EXTENDS Integers, Sequences, FiniteSets, TLC

(* ---------------- bounds ---------------- *)
MaxCalls == 4
MaxBindings == 2
MaxPos == 2
MaxKw == 2
MaxDeref == 1
MaxAccesses == 2
MaxSupers == 1
MaxTypes == 4
MaxSorts == 2
MaxNest == 1
MaxParams == 1
MaxMembers == 2

(* the most arms of a match *)
MaxArms == 2

(* the most SharedCompilerResource values *)
MaxResources == 3

(* ---------------- promise table: values ---------------- *)
Paths == {1, 2, 3}
MainThread == 0
Threads == {0, 1, 2, 3}

(* the thread that only the scenario of two concurrent inserts spawns *)
SpareThread == 3
RootPath == 1
NoThread == -1

Absent == [st |-> "Absent", parent |-> NoThread, handle |-> NoThread]
Joining == [st |-> "Joining", parent |-> NoThread, handle |-> NoThread]
Finished == [st |-> "Finished", parent |-> NoThread, handle |-> NoThread]
Running(parent, handle) == [st |-> "Running", parent |-> parent, handle |-> handle]

NoRet == [res |-> "none", via |-> "none", thread |-> NoThread, path |-> 0, handle |-> NoThread]

VARIABLES
    promises,   \* SharedPromises.promises : path -> Promise (Absent = no entry)
    graph,      \* SharedModuleGraph : set of import edges <<importer, imported>>
    status,     \* per thread: "unspawned" | "running" | "done" | "panicked"
    selfPath,   \* per thread: SharedPromises.path of the resource the thread uses
    op,         \* per thread: the SharedPromises method the thread is executing
    pc,         \* per thread: position inside that method
    cur,        \* per thread: the `path` argument / loop variable
    held,       \* per thread: promises moved out of the table (take / new handle)
    jres,       \* per thread: `res` of handle.join() (line 126)
    ret,        \* the join_checked that returned last, until the next call starts
    settled,    \* per thread: paths the running join_children / join_all set Finished
    calls,      \* number of calls started so far
    reaped,     \* handles consumed by handle.join()
    script      \* per thread: the calls a scripted worker still has to make

pvars == <<promises, graph, status, selfPath, op, pc, cur, held, jres, ret, settled, calls,
           reaped, script>>

VARIABLES
    ctxs,       \* per Context: the tables' entries for the identifier looked up
    query,      \* the arguments of the last rec_get_var_info call
    resolved    \* its result (a Triple)

rvars == <<ctxs, query, resolved>>

VARIABLES
    subr,       \* the SubrType of the callee and whether the call is a method call
    args,       \* the arguments of the last substitute_call
    outcome     \* its result

cvars == <<subr, args, outcome>>

VARIABLES
    build,      \* the build and the facts get_attr_info reads from its arguments
    objT,       \* the type of the object whose attribute is looked up
    attrQuery,  \* the arguments of the last get_attr_info call
    attrResult  \* its result (a Triple)

avars == <<build, objT, attrQuery, attrResult>>

VARIABLES
    registry,    \* the registered type Contexts, by type name
    superQuery,  \* the argument of the last get_nominal_super_type_ctxs call
    superResult  \* its result (an Option<Vec<&Context>>)

nvars == <<registry, superQuery, superResult>>

VARIABLES
    sortArg,    \* the types given to the last sort_types call
    sortRes,    \* its result
    sortCalls   \* the number of sort_types calls made

svars == <<sortArg, sortRes, sortCalls>>

VARIABLES
    traitImpls,   \* the shared table of trait implementations, by trait name
    traitQuery,   \* the trait expression of the last get_trait_impls call
    traitResult   \* its result (a Set<TraitImpl>)

tvars == <<traitImpls, traitQuery, traitResult>>

VARIABLES
    instance,   \* the callee type given to resolve_overload: the signatures it intersects
    pos_args,   \* the types of the positional arguments of the call
    resolution  \* the result of the resolve_overload call

lvars == <<instance, pos_args, resolution>>

VARIABLES
    typesArg,   \* the types given to min_type and max_type
    minRes,     \* the result of min_type (an Option<&Type>)
    maxRes      \* the result of max_type

mvars == <<typesArg, minRes, maxRes>>

VARIABLES
    matchCall,  \* the call of match / match! given to get_call_t
    matchRes    \* the result of get_call_t for it

hvars == <<matchCall, matchRes>>

VARIABLES
    modCache,   \* SharedCompilerResource::mod_cache : the paths it holds
    pyModCache, \* SharedCompilerResource::py_mod_cache : the paths it holds
    modCall     \* per thread: its call of get_mod_with_path

gvars == <<modCache, pyModCache, modCall>>

VARIABLES
    resources,  \* the SharedCompilerResource values: which shared cells each refers to
    heap,       \* the contents of the shared cells
    lastOp      \* the call of clear_all or clear that was the last operation, if it was one

kvars == <<resources, heap, lastOp>>

(* the state of the pure operations of inquire.rs *)
evars == <<avars, nvars, svars, tvars, lvars, mvars, hvars>>

(* the state of the other parts of the model *)
ovars == <<rvars, cvars, evars, gvars, kvars>>

vars == <<pvars, ovars>>

NothingHeld == [p \in Paths |-> Absent]

(* Promise::parent_thread_id *)
parent_thread_id(pr) == IF pr.st = "Running" THEN pr.parent ELSE NoThread

(* Promise::thread_id *)
thread_id(pr) == IF pr.st = "Running" THEN pr.handle ELSE NoThread

(* Promise::take : the value left in the table *)
take(pr) == Joining

(* SharedModuleGraph::ancestors : the transitive importers of a path *)
RECURSIVE AncestorsUpTo(_, _, _)
AncestorsUpTo(g, ps, n) ==
    IF n = 0 THEN ps
    ELSE AncestorsUpTo(g, ps \cup {e[1] : e \in {d \in g : d[2] \in ps}}, n - 1)

ancestors(g, p) == AncestorsUpTo(g, {e[1] : e \in {d \in g : d[2] = p}}, Cardinality(Paths))

(* the cycle test without the comparison of the handle's thread with the caller *)
is_cycle_ignoring_thread(t, p, pr) == selfPath[t] \in ancestors(graph, p)

(* the cycle test without the look-up in the module graph *)
is_cycle_ignoring_graph(t, p, pr) == pr.handle = t

(* promise.rs:118 : the cycle test of join_checked *)
is_cycle(t, p, pr) == selfPath[t] \in ancestors(graph, p) \/ pr.handle = t

Idle(t) == status[t] = "running" /\ pc[t] = "idle"

PStart ==
    /\ promises = [p \in Paths |-> Absent]
    /\ graph = {}
    /\ selfPath = [t \in Threads |-> RootPath]
    /\ op = [t \in Threads |-> "none"]
    /\ pc = [t \in Threads |-> "idle"]
    /\ cur = [t \in Threads |-> RootPath]
    /\ held = [t \in Threads |-> NothingHeld]
    /\ jres = [t \in Threads |-> "none"]
    /\ ret = NoRet
    /\ settled = [t \in Threads |-> {}]
    /\ calls = 0
    /\ reaped = {}

PInit ==
    /\ status = [t \in Threads |-> IF t = MainThread THEN "running"
                                   ELSE IF t = SpareThread THEN "spare" ELSE "unspawned"]
    /\ PStart


(* A worker imports a module that is already registered: only the import  *)
(* edge from its own module is recorded in the module graph.  The graph   *)
(* is kept to as many edges as a cycle through every module needs.        *)
Import(t, p) ==
    /\ Idle(t)
    /\ p # selfPath[t]
    /\ p = RootPath \/ promises[p] # Absent
    /\ <<selfPath[t], p>> \notin graph
    /\ Cardinality(graph) < Cardinality(Paths)
    /\ graph' = graph \cup {<<selfPath[t], p>>}
    /\ ret' = NoRet
    /\ UNCHANGED <<promises, status, selfPath, op, pc, cur, held, jres, calls, reaped>>
    /\ UNCHANGED <<settled, ovars>>

(* A worker imports module p: it records the import edge, spawns the      *)
(* worker of p (SharedCompilerResource::inherit gives it its own path)    *)
(* and calls insert(p, handle).                                           *)
Spawn(t, p) ==
    /\ Idle(t)
    /\ calls < MaxCalls
    /\ p # selfPath[t]
    /\ \E w \in Threads :
        /\ status[w] = "unspawned"
        /\ \A v \in Threads : status[v] = "unspawned" => w <= v
        /\ status' = [status EXCEPT ![w] = "running"]
        /\ selfPath' = [selfPath EXCEPT ![w] = p]
        /\ held' = [held EXCEPT ![t][p] = Running(t, w)]
    /\ op' = [op EXCEPT ![t] = "insert"]
    /\ pc' = [pc EXCEPT ![t] = "ins_check"]
    /\ cur' = [cur EXCEPT ![t] = p]
    /\ calls' = calls + 1
    /\ graph' = graph \cup {<<selfPath[t], p>>}
    /\ ret' = NoRet
    /\ UNCHANGED <<promises, jres, reaped>>
    /\ UNCHANGED <<settled, ovars>>

(* insert, line 94-97 *)
InsertCheck(t) ==
    /\ pc[t] = "ins_check"
    /\ IF promises[cur[t]].st # "Absent"
       THEN /\ pc' = [pc EXCEPT ![t] = "idle"]
            /\ op' = [op EXCEPT ![t] = "none"]
            /\ held' = [held EXCEPT ![t] = NothingHeld]
            /\ cur' = [cur EXCEPT ![t] = RootPath]
       ELSE /\ pc' = [pc EXCEPT ![t] = "ins_write"]
            /\ UNCHANGED <<op, held, cur>>
    /\ UNCHANGED <<promises, graph, status, selfPath, jres, ret, calls, reaped>>
    /\ UNCHANGED <<settled, script, ovars>>

(* insert, line 98-100 *)
InsertWrite(t) ==
    /\ pc[t] = "ins_write"
    /\ promises' = [promises EXCEPT ![cur[t]] = held[t][cur[t]]]
    /\ held' = [held EXCEPT ![t] = NothingHeld]
    /\ pc' = [pc EXCEPT ![t] = "idle"]
    /\ op' = [op EXCEPT ![t] = "none"]
    /\ cur' = [cur EXCEPT ![t] = RootPath]
    /\ UNCHANGED <<graph, status, selfPath, jres, ret, calls, reaped>>
    /\ UNCHANGED <<settled, script, ovars>>

(* join(path) is called *)
BeginJoin(t, p) ==
    /\ Idle(t)
    /\ calls < MaxCalls
    /\ op' = [op EXCEPT ![t] = "join"]
    /\ pc' = [pc EXCEPT ![t] = "spin"]
    /\ cur' = [cur EXCEPT ![t] = p]
    /\ calls' = calls + 1
    /\ ret' = NoRet
    /\ UNCHANGED <<promises, graph, status, selfPath, held, jres, reaped>>
    /\ UNCHANGED <<settled, ovars>>

(* join, line 132-134 : the loop is left once the entry is Running or Finished *)
JoinSpin(t) ==
    /\ pc[t] = "spin"
    /\ promises[cur[t]].st \notin {"Joining", "Absent"}
    /\ pc' = [pc EXCEPT ![t] = "take"]
    /\ UNCHANGED <<promises, graph, status, selfPath, op, cur, held, jres, ret, calls, reaped>>
    /\ UNCHANGED <<settled, script, ovars>>

(* join, line 135 *)
JoinTake(t) ==
    /\ pc[t] = "take"
    /\ held' = [held EXCEPT ![t][cur[t]] = promises[cur[t]]]
    /\ promises' = [promises EXCEPT ![cur[t]] = take(@)]
    /\ pc' = [pc EXCEPT ![t] = "check"]
    /\ UNCHANGED <<graph, status, selfPath, op, cur, jres, ret, calls, reaped>>
    /\ UNCHANGED <<settled, script, ovars>>

(* join_children without the filter on the parent thread *)
children_taken_any_parent(t) ==
    [p \in Paths |-> IF promises[p].st = "Running" THEN promises[p] ELSE Absent]

(* the entries join_children moves out of the table, line 142-147 *)
children_taken(t) ==
    [p \in Paths |-> IF parent_thread_id(promises[p]) = t THEN promises[p] ELSE Absent]

(* the entries join_all moves out of the table, line 155-157 *)
all_taken(t) == [p \in Paths |-> promises[p]]

(* the end of one join_checked: the caller's loop goes on or the call returns *)
AfterJoinChecked(t, r, v) ==
    /\ ret' = [res |-> r, via |-> v, thread |-> t, path |-> cur[t],
               handle |-> held[t][cur[t]].handle]
    /\ held' = [held EXCEPT ![t][cur[t]] = Absent]
    /\ IF op[t] = "join" \/ \A p \in Paths \ {cur[t]} : held[t][p] = Absent
       THEN /\ pc' = [pc EXCEPT ![t] = "idle"]
            /\ op' = [op EXCEPT ![t] = "none"]
            /\ cur' = [cur EXCEPT ![t] = RootPath]
            /\ settled' = [settled EXCEPT ![t] = {}]
       ELSE /\ pc' = [pc EXCEPT ![t] = "check"]
            /\ op' = op
            /\ settled' = [settled EXCEPT ![t] = IF v = "blocked" THEN @ \cup {cur[t]} ELSE @]
            /\ \E q \in Paths \ {cur[t]} :
                    held[t][q] # Absent /\ cur' = [cur EXCEPT ![t] = q]

(* join_children / join_all, first loop and entry of the second loop *)
BeginReap(t, kind) ==
    /\ Idle(t)
    /\ calls < MaxCalls
    /\ kind \in {"join_children", "join_all"}
    /\ LET taken == IF kind = "join_children" THEN children_taken(t) ELSE all_taken(t)
       IN  /\ promises' = [p \in Paths |-> IF taken[p] # Absent THEN take(promises[p])
                                           ELSE promises[p]]
           /\ held' = [held EXCEPT ![t] = taken]
           /\ IF \A p \in Paths : taken[p] = Absent
              THEN /\ pc' = pc /\ op' = op /\ cur' = cur
              ELSE /\ pc' = [pc EXCEPT ![t] = "check"]
                   /\ op' = [op EXCEPT ![t] = kind]
                   /\ \E q \in Paths : taken[q] # Absent /\ cur' = [cur EXCEPT ![t] = q]
    /\ ret' = NoRet
    /\ calls' = calls + 1
    /\ UNCHANGED <<graph, status, selfPath, jres, settled, reaped>>
    /\ UNCHANGED <<ovars>>

(* join_checked, line 115-118 *)
JcCheck(t) ==
    /\ pc[t] = "check"
    /\ LET pr == held[t][cur[t]]
       IN  IF pr.st # "Running"
           THEN /\ AfterJoinChecked(t, "Ok", "skipped")
                /\ UNCHANGED <<promises, graph, status, selfPath, jres, calls, reaped>>
           ELSE /\ pc' = [pc EXCEPT ![t] = IF is_cycle(t, cur[t], pr) THEN "restore" ELSE "block"]
                /\ UNCHANGED <<promises, graph, status, selfPath, op, cur, held, jres, ret,
                               settled, calls, reaped>>
    /\ UNCHANGED <<script, ovars>>

(* join_checked, line 122-124 *)
JcRestore(t) ==
    /\ pc[t] = "restore"
    /\ promises' = [promises EXCEPT ![cur[t]] = held[t][cur[t]]]
    /\ AfterJoinChecked(t, "Ok", "cycle")
    /\ UNCHANGED <<graph, status, selfPath, jres, calls, reaped>>
    /\ UNCHANGED <<script, ovars>>

(* join_checked, line 126 : handle.join() returns when the worker has ended *)
JcBlock(t) ==
    /\ pc[t] = "block"
    /\ LET w == held[t][cur[t]].handle
       IN  /\ status[w] \in {"done", "panicked"}
           /\ jres' = [jres EXCEPT ![t] = IF status[w] = "panicked" THEN "Err" ELSE "Ok"]
           /\ reaped' = reaped \cup {w}
    /\ pc' = [pc EXCEPT ![t] = "fin"]
    /\ UNCHANGED <<promises, graph, status, selfPath, op, cur, held, ret, calls>>
    /\ UNCHANGED <<settled, script, ovars>>

(* join_checked that drops the result of handle.join() and returns Ok *)
JcFinish_dropping_result(t) ==
    /\ pc[t] = "fin"
    /\ promises' = [promises EXCEPT ![cur[t]] = Finished]
    /\ AfterJoinChecked(t, "Ok", "blocked")
    /\ jres' = [jres EXCEPT ![t] = "none"]
    /\ UNCHANGED <<graph, status, selfPath, calls, reaped>>
    /\ UNCHANGED <<script, ovars>>

(* join_checked, line 127-128 *)
JcFinish(t) ==
    /\ pc[t] = "fin"
    /\ promises' = [promises EXCEPT ![cur[t]] = Finished]
    /\ AfterJoinChecked(t, jres[t], "blocked")
    /\ jres' = [jres EXCEPT ![t] = "none"]
    /\ UNCHANGED <<graph, status, selfPath, calls, reaped>>
    /\ UNCHANGED <<script, ovars>>

(* the worker's closure returns *)
WorkerDone(t) ==
    /\ t # MainThread
    /\ Idle(t)
    /\ status' = [status EXCEPT ![t] = "done"]
    /\ ret' = NoRet
    /\ UNCHANGED <<promises, graph, selfPath, op, pc, cur, held, jres, calls, reaped>>
    /\ UNCHANGED <<settled, ovars>>

(* the worker's closure panics *)
WorkerPanic(t) ==
    /\ t # MainThread
    /\ Idle(t)
    /\ status' = [status EXCEPT ![t] = "panicked"]
    /\ ret' = NoRet
    /\ UNCHANGED <<promises, graph, selfPath, op, pc, cur, held, jres, calls, reaped>>
    /\ UNCHANGED <<settled, ovars>>


(* ---------------- claims about the promise table ---------------- *)

(* the thread t takes the step *)
Acts(t) == pc'[t] # pc[t] \/ held'[t] # held[t]

(* the import graph holds a cycle through all three modules *)
ThreeCycle == {<<1, 2>>, <<2, 3>>, <<3, 1>>} \subseteq graph \/ {<<1, 3>>, <<3, 2>>, <<2, 1>>} \subseteq graph

(* C1: a join_checked that holds a Running promise of a path whose ancestor *)
(* set contains the caller's own path, or whose worker is the calling      *)
(* thread, never goes on to block on the handle: its next steps put the    *)
(* same Running{parent, handle} back and return Ok (join returns at once). *)
C1_CycleJoinNeverBlocks ==
    [][\A t \in Threads :
        LET p == cur[t]
            pr == held[t][p]
        IN  /\ ( /\ pc[t] = "check" /\ pc'[t] # "check"
                 /\ pr.st = "Running"
                 /\ (selfPath[t] \in ancestors(graph, p) \/ pr.handle = t) )
               => pc'[t] = "restore"
            /\ (pc[t] = "restore" /\ pc'[t] # "restore")
               => /\ promises'[p] = pr
                  /\ pr.st = "Running"
                  /\ ret' = [res |-> "Ok", via |-> "cycle", thread |-> t, path |-> p,
                             handle |-> pr.handle]
                  /\ (op[t] = "join" => pc'[t] = "idle")
            /\ pc[t] = "block" => held[t][p].handle # t]_vars

(* a join over a 3-cycle, from a module that imports the target only transitively, *)
(* took the cycle branch and the promise is Running again                          *)
C1_Witness ==
    /\ ThreeCycle
    /\ ret.via = "cycle" /\ ret.res = "Ok"
    /\ ret.thread # NoThread
    /\ <<selfPath[ret.thread], ret.path>> \notin graph
    /\ ret.handle # ret.thread
    /\ promises[ret.path] = Running(promises[ret.path].parent, ret.handle)

(* C3: the state of a promise only changes Running -> Joining,             *)
(* Joining -> Finished or Joining -> Running (registration aside);         *)
(* Finished is terminal.                                                   *)
C3_MonotonicPromise ==
    [][\A p \in Paths :
        promises'[p].st # promises[p].st
        => <<promises[p].st, promises'[p].st>> \in
              {<<"Absent", "Running">>, <<"Running", "Joining">>,
               <<"Joining", "Finished">>, <<"Joining", "Running">>}]_vars

(* the workers that were started for path p *)
WorkersOf(p) ==
    {w \in Threads \ {MainThread} : status[w] \notin {"unspawned", "spare"} /\ selfPath[w] = p}

(* C4: a join(path) that returns Ok without taking the cycle branch returns *)
(* only when the worker of path has completed and the promise is Finished.  *)
C4_JoinOrdering ==
    [][\A t \in Threads :
        ( /\ op[t] = "join" /\ pc[t] # "idle" /\ pc'[t] = "idle"
          /\ ret'.res = "Ok" /\ ret'.via # "cycle" )
        => /\ promises'[cur[t]].st = "Finished"
           /\ \A w \in WorkersOf(cur[t]) : status'[w] \in {"done", "panicked"}]_vars

(* C5: a join_checked that waited on a panicked worker sets the promise    *)
(* Finished and join returns the failure; a reaped worker stays ended and  *)
(* its handle is never again in a Running promise.                         *)
C5_FailurePropagates ==
    /\ [][\A t \in Threads :
            (pc[t] = "fin" /\ pc'[t] # "fin")
            => /\ promises'[cur[t]] = Finished
               /\ ret'.thread = t /\ ret'.via = "blocked"
               /\ (status[held[t][cur[t]].handle] = "panicked" <=> ret'.res = "Err")]_vars
    /\ [](\A w \in reaped :
            /\ status[w] \in {"done", "panicked"}
            /\ \A p \in Paths : promises[p].handle # w
            /\ \A t \in Threads : \A p \in Paths :
                   held[t][p].handle = w => pc[t] = "fin" /\ cur[t] = p)
    /\ [][\A w \in Threads : status[w] = "panicked" => status'[w] = "panicked"]_vars

(* a join returned the failure of a panicked worker and left the promise Finished *)
C5_Witness ==
    /\ ret.via = "blocked" /\ ret.res = "Err"
    /\ status[ret.handle] = "panicked"
    /\ promises[ret.path] = Finished
    /\ pc[ret.thread] = "idle"

(* C6: when join_all returns, every promise it waited on (one that was      *)
(* Running when join_all took it and is in no cycle with the caller) is     *)
(* Finished, whatever the results of the workers it reaped.                 *)
C6_ReapLeavesFinished ==
    [][\A t \in Threads :
        (op[t] = "join_all" /\ pc[t] # "idle" /\ pc'[t] = "idle")
        => \A p \in settled[t] \cup (IF pc[t] = "fin" THEN {cur[t]} ELSE {}) :
               promises'[p] = Finished]_vars

(* C7: a step of join_children changes the entry of a path only if the     *)
(* promise it took there was Running with the calling thread as parent.    *)
C7_JoinChildrenFrame ==
    [][\A t \in Threads : \A p \in Paths :
        /\ (op[t] = "none" /\ op'[t] = "join_children" /\ promises'[p] # promises[p])
           => promises[p].st = "Running" /\ promises[p].parent = t
        /\ (op[t] = "join_children" /\ Acts(t) /\ promises'[p] # promises[p])
           => held[t][p].st = "Running" /\ held[t][p].parent = t]_vars

(* join_children took a child's promise while another thread's child is Running *)
C7_Witness ==
    \E t \in Threads : \E p, q \in Paths :
        /\ op[t] = "join_children"
        /\ held[t][p].st = "Running" /\ promises[p] = Joining
        /\ promises[q].st = "Running" /\ promises[q].parent # t

(* C8: a promise is Joining only while some thread that took it is still   *)
(* inside its join, join_children or join_all call.                        *)
C8_JoiningIsTransient ==
    \A p \in Paths :
        promises[p].st = "Joining"
        => \E t \in Threads : pc[t] # "idle" /\ held[t][p] # Absent

(* the thread t is inside join(path) and has not moved a Running or        *)
(* Finished promise out of the table                                       *)
Waiting(t) == op[t] = "join" /\ held[t][cur[t]].st \notin {"Running", "Finished"}

(* C27: while the path of a join has no promise or its promise is Joining  *)
(* the call neither returns nor changes the promise table; it takes the    *)
(* promise only when it is Running or Finished, so a join on a path that   *)
(* is never registered never returns.                                      *)
C27_JoinWaits ==
    [][\A t \in Threads :
            (Waiting(t) /\ promises[cur[t]].st \in {"Absent", "Joining"} /\ Acts(t))
                => /\ promises' = promises
                   /\ op'[t] = "join"
                   /\ held'[t] = held[t]]_vars

(* C29: a module path is registered at most once: an insert on a path that *)
(* has a promise leaves the promise as it is, and when two threads insert  *)
(* the same path the promise stored first is never replaced by the later   *)
(* insert.                                                                 *)
C29_RegisteredOnce ==
    [][\A t \in Threads :
            (op[t] = "insert" /\ promises[cur[t]].st # "Absent" /\ Acts(t))
                => promises'[cur[t]] = promises[cur[t]]]_vars

(* ---------------- get_mod_with_path (context/inquire.rs) ---------------- *)

NoModCall == [st |-> "none", path |-> RootPath, res |-> "none", joined |-> FALSE]

JoiningMod(p) == [st |-> "joining", path |-> p, res |-> "none", joined |-> TRUE]

ReturnedMod(p, res, joined) == [st |-> "returned", path |-> p, res |-> res, joined |-> joined]

(* Promise::is_finished, promise.rs line 40-46 *)
promise_is_finished(pr) ==
    CASE pr.st = "Finished" -> TRUE
      [] pr.st = "Running" -> status[pr.handle] \in {"done", "panicked"}
      [] OTHER -> FALSE

(* SharedPromises::is_registered, promise.rs line 103-105 *)
is_registered(p) == promises[p].st # "Absent"

(* SharedPromises::is_finished, promise.rs line 107-112 *)
is_finished(p) == promises[p].st # "Absent" /\ promise_is_finished(promises[p])

(* get_mod_with_path, line 59-64 without the test of the caches *)
must_join_uncached(p) == is_registered(p) /\ ~is_finished(p)

(* get_mod_with_path, line 59-64 : the condition of the join *)
must_join(p) ==
    /\ is_registered(p)
    /\ ~is_finished(p)
    /\ p \notin modCache /\ p \notin pyModCache

(* get_mod_with_path, line 67-70 *)
read_caches(p) ==
    IF p \in modCache THEN "mod_cache"
    ELSE IF p \in pyModCache THEN "py_mod_cache"
    ELSE "None"

GIdle == modCache = {} /\ pyModCache = {} /\ modCall = [t \in Threads |-> NoModCall]

(* the thread is not inside get_mod_with_path *)
Outside(t) == modCall[t].st # "joining"

(* get_mod_with_path(path), line 55-66, and line 67-70 when it does not join *)
GetModWithPath(t, p) ==
    /\ Idle(t)
    /\ Outside(t)
    /\ calls < MaxCalls
    /\ calls' = calls + 1
    /\ ret' = NoRet
    /\ IF selfPath[t] = p
       THEN /\ modCall' = [modCall EXCEPT ![t] = ReturnedMod(p, "own", FALSE)]
            /\ UNCHANGED <<op, pc, cur>>
       ELSE IF must_join(p)
       THEN /\ modCall' = [modCall EXCEPT ![t] = JoiningMod(p)]
            /\ op' = [op EXCEPT ![t] = "join"]
            /\ pc' = [pc EXCEPT ![t] = "spin"]
            /\ cur' = [cur EXCEPT ![t] = p]
       ELSE /\ modCall' = [modCall EXCEPT ![t] = ReturnedMod(p, read_caches(p), FALSE)]
            /\ UNCHANGED <<op, pc, cur>>
    /\ UNCHANGED <<promises, graph, status, selfPath, held, jres, settled, reaped, script>>
    /\ UNCHANGED <<modCache, pyModCache, rvars, cvars, evars, kvars>>

(* get_mod_with_path, line 67-70, after join has returned *)
GetModRead(t) ==
    /\ modCall[t].st = "joining"
    /\ Idle(t)
    /\ modCall' = [modCall EXCEPT ![t] = ReturnedMod(@.path, read_caches(@.path), TRUE)]
    /\ UNCHANGED <<pvars, modCache, pyModCache, rvars, cvars, evars, kvars>>

(* a worker registers the module it has compiled in one of the caches *)
CacheModule(t, py) ==
    /\ t # MainThread
    /\ Idle(t)
    /\ Outside(t)
    /\ selfPath[t] \notin modCache \cup pyModCache
    /\ IF py THEN pyModCache' = pyModCache \cup {selfPath[t]} /\ UNCHANGED modCache
             ELSE modCache' = modCache \cup {selfPath[t]} /\ UNCHANGED pyModCache
    /\ UNCHANGED <<pvars, modCall, rvars, cvars, evars, kvars>>

(* the threads that run the compilation of the module p and have not ended *)
LiveWorkersOf(p) == {w \in WorkersOf(p) : status[w] = "running"}

(* C28: get_mod_with_path never joins the caller's own module path: it     *)
(* returns the caller's module Context. It calls join(path) only when path *)
(* has a promise, the promise is not finished and neither module cache     *)
(* holds path; otherwise it reads the caches without waiting.              *)
C28_GetModWithPath ==
    [][\A t \in Threads :
        (Outside(t) /\ modCall'[t] # modCall[t]) =>
            LET p == modCall'[t].path
                joins == modCall'[t].st = "joining"
            IN  /\ p = selfPath[t] => modCall'[t] = ReturnedMod(p, "own", FALSE)
                /\ joins => op'[t] = "join" /\ cur'[t] = p
                /\ joins <=>
                        /\ p # selfPath[t]
                        /\ promises[p].st \in {"Running", "Joining"}
                        /\ promises[p].st = "Running" => status[promises[p].handle] = "running"
                        /\ p \notin modCache \cup pyModCache
                /\ ~joins =>
                        /\ op'[t] = "none" /\ promises' = promises
                        /\ p # selfPath[t] =>
                             modCall'[t].res = (IF p \in modCache THEN "mod_cache"
                                                ELSE IF p \in pyModCache THEN "py_mod_cache"
                                                ELSE "None")]_vars

(* a call has joined the worker of another module and then found the       *)
(* module in the cache                                                     *)
C28_Witness ==
    \E t \in Threads :
        /\ modCall[t] = ReturnedMod(modCall[t].path, "mod_cache", TRUE)
        /\ promises[modCall[t].path] = Finished

(* ---------------- name resolution (context/inquire.rs) ---------------- *)

(* The Contexts: the builtins root, a module, a class defined in the module *)
(* and a methods Context in the class's methods_list.                       *)
NoCtx == 0
BuiltinsCtx == 1
ModuleCtx == 2
ClassCtx == 3
MethodsCtx == 4
CtxIds == {BuiltinsCtx, ModuleCtx, ClassCtx, MethodsCtx}

(* Context::get_outer *)
get_outer(c) == IF c \in {ClassCtx, MethodsCtx} THEN ModuleCtx ELSE NoCtx

(* Context::get_builtins *)
get_builtins(c) == IF c = BuiltinsCtx THEN NoCtx ELSE BuiltinsCtx

(* Context.methods_list *)
methods_list(c) == IF c = ClassCtx THEN <<MethodsCtx>> ELSE <<>>

(* A table entry for the identifier: absent, or a VarInfo with the two facts   *)
(* a lookup reads from it: vi.vis.compatible(ident.acc_kind(), namespace) and  *)
(* acc_kind.matches(vi).                                                       *)
NoVar == [present |-> FALSE, compat |-> FALSE, matches |-> FALSE]
VarInfos == [present : {TRUE}, compat : BOOLEAN, matches : BOOLEAN]
Tables == {"locals", "decls", "params"}
EmptyCtx == [locals |-> NoVar, decls |-> NoVar, params |-> NoVar,
             future_defined_locals |-> FALSE, deleted_locals |-> FALSE]

NoFound == [present |-> FALSE, compat |-> FALSE, matches |-> FALSE, ctx |-> NoCtx, table |-> "none"]
Found(vi, c, tbl) ==
    [present |-> TRUE, compat |-> vi.compat, matches |-> vi.matches, ctx |-> c, table |-> tbl]

TripleNone == [kind |-> "None", err |-> "none", at |-> NoCtx, vi |-> NoFound]
TripleOk(vi) == [kind |-> "Ok", err |-> "none", at |-> NoCtx, vi |-> vi]
TripleErr(e, c) == [kind |-> "Err", err |-> e, at |-> c, vi |-> NoFound]
Unresolved == [kind |-> "unset", err |-> "none", at |-> NoCtx, vi |-> NoFound]
NoQuery == [ctx |-> NoCtx, local |-> FALSE]

(* Context::get_current_scope_var, line 74-104 *)
RECURSIVE get_current_scope_var(_, _)
RECURSIVE scope_var_in_methods(_, _, _)
get_current_scope_var(cs, c) ==
    IF cs[c].locals.present THEN Found(cs[c].locals, c, "locals")
    ELSE IF cs[c].decls.present THEN Found(cs[c].decls, c, "decls")
    ELSE IF cs[c].params.present THEN Found(cs[c].params, c, "params")
    ELSE scope_var_in_methods(cs, methods_list(c), 1)

scope_var_in_methods(cs, ms, i) ==
    IF i > Len(ms) THEN NoFound
    ELSE LET vi == get_current_scope_var(cs, ms[i])
         IN  IF vi.present THEN vi ELSE scope_var_in_methods(cs, ms, i + 1)

(* a validate_visibility that accepts every binding *)
validate_visibility_always_ok(vi) == TRUE

(* Context::validate_visibility, line 1074-1093 : TRUE is Ok(()) *)
validate_visibility(vi) == vi.compat

(* Context::rec_get_var_info, line 425-485 *)
RECURSIVE rec_get_var_info(_, _, _)
RECURSIVE var_info_in_methods(_, _, _, _)

(* a rec_get_var_info that goes on to the enclosing Context whatever the access kind *)
rec_get_var_info_into_outer(cs, c, local) ==
    LET vi == get_current_scope_var(cs, c)
        early ==
            IF vi.present
            THEN IF validate_visibility(vi)
                 THEN IF vi.matches THEN TripleOk(vi) ELSE TripleNone
                 ELSE IF ~local THEN TripleErr("visibility", c) ELSE TripleNone
            ELSE IF cs[c].future_defined_locals THEN TripleErr("access_before_def", c)
            ELSE IF cs[c].deleted_locals THEN TripleErr("access_deleted_var", c)
            ELSE TripleNone
    IN  IF early.kind # "None" THEN early
        ELSE LET m == var_info_in_methods(cs, methods_list(c), 1, local)
                 parent == IF get_outer(c) # NoCtx THEN get_outer(c) ELSE get_builtins(c)
             IN  IF m.kind # "None" THEN m
                 ELSE IF parent # NoCtx THEN rec_get_var_info(cs, parent, local)
                 ELSE TripleNone

rec_get_var_info(cs, c, local) ==
    LET vi == get_current_scope_var(cs, c)
        early ==
            IF vi.present
            THEN IF validate_visibility(vi)
                 THEN IF vi.matches THEN TripleOk(vi) ELSE TripleNone
                 ELSE IF ~local THEN TripleErr("visibility", c) ELSE TripleNone
            ELSE IF cs[c].future_defined_locals THEN TripleErr("access_before_def", c)
            ELSE IF cs[c].deleted_locals THEN TripleErr("access_deleted_var", c)
            ELSE TripleNone
    IN  IF early.kind # "None" THEN early
        ELSE LET m == var_info_in_methods(cs, methods_list(c), 1, local)
                 parent == IF get_outer(c) # NoCtx THEN get_outer(c) ELSE get_builtins(c)
             IN  IF m.kind # "None" THEN m
                 ELSE IF local /\ parent # NoCtx THEN rec_get_var_info(cs, parent, local)
                 ELSE TripleNone

var_info_in_methods(cs, ms, i, local) ==
    IF i > Len(ms) THEN TripleNone
    ELSE LET r == rec_get_var_info(cs, ms[i], local)
         IN  IF r.kind # "None" THEN r ELSE var_info_in_methods(cs, ms, i + 1, local)

(* the number of entries the Contexts hold for the identifier *)
Bindings(cs) ==
    Cardinality({<<c, tbl>> \in CtxIds \X Tables : cs[c][tbl].present})
    + Cardinality({c \in CtxIds : cs[c].future_defined_locals})
    + Cardinality({c \in CtxIds : cs[c].deleted_locals})

RInit ==
    /\ ctxs = [c \in CtxIds |-> EmptyCtx]
    /\ query = NoQuery
    /\ resolved = Unresolved

(* the identifier is registered in a table of a Context *)
Register(c, tbl, vi) ==
    /\ resolved = Unresolved
    /\ Bindings(ctxs) < MaxBindings
    /\ ~ctxs[c][tbl].present
    /\ ctxs' = [ctxs EXCEPT ![c][tbl] = vi]
    /\ UNCHANGED <<query, resolved>>

(* the identifier is recorded as defined later in the Context *)
DeclareLater(c) ==
    /\ resolved = Unresolved
    /\ Bindings(ctxs) < MaxBindings
    /\ ~ctxs[c].future_defined_locals
    /\ ctxs' = [ctxs EXCEPT ![c].future_defined_locals = TRUE]
    /\ UNCHANGED <<query, resolved>>

(* the identifier is recorded as deleted in the Context *)
Delete(c) ==
    /\ resolved = Unresolved
    /\ Bindings(ctxs) < MaxBindings
    /\ ~ctxs[c].deleted_locals
    /\ ctxs' = [ctxs EXCEPT ![c].deleted_locals = TRUE]
    /\ UNCHANGED <<query, resolved>>

(* rec_get_var_info(ident, acc_kind, input, namespace) is called on Context c *)
ResolveName(c, local) ==
    /\ resolved = Unresolved
    /\ query' = [ctx |-> c, local |-> local]
    /\ resolved' = rec_get_var_info(ctxs, c, local)
    /\ UNCHANGED ctxs

RNext ==
    \/ \E c \in CtxIds, tbl \in Tables, vi \in VarInfos :
            Register(c, tbl, vi) /\ UNCHANGED <<pvars, cvars, evars, gvars, kvars>>
    \/ \E c \in CtxIds : DeclareLater(c) /\ UNCHANGED <<pvars, cvars, evars, gvars, kvars>>
    \/ \E c \in CtxIds : Delete(c) /\ UNCHANGED <<pvars, cvars, evars, gvars, kvars>>
    \/ \E c \in CtxIds, local \in BOOLEAN : ResolveName(c, local) /\ UNCHANGED <<pvars, cvars, evars, gvars, kvars>>

(* C9: rec_get_var_info never returns a binding whose visibility is        *)
(* incompatible with the namespace; with local access such a binding is    *)
(* passed over (no visibility error) and the search goes on.               *)
C9_VisibilityRespected ==
    /\ resolved.kind = "Ok" => resolved.vi.present /\ resolved.vi.compat
    /\ (resolved.kind = "Ok" /\ resolved.vi.table # "none")
       => ctxs[resolved.vi.ctx][resolved.vi.table].compat
    /\ (resolved.kind \in {"Ok", "Err", "None"} /\ query.local)
       => ~(resolved.kind = "Err" /\ resolved.err = "visibility")

(* a local lookup passed over the class's incompatible binding and returned *)
(* the compatible one of the enclosing module                              *)
C9_Witness ==
    /\ query = [ctx |-> ClassCtx, local |-> TRUE]
    /\ ctxs[ClassCtx].locals.present /\ ~ctxs[ClassCtx].locals.compat
    /\ resolved.kind = "Ok"
    /\ resolved.vi.ctx = ModuleCtx
    /\ resolved.vi.compat

(* the Context c and the Contexts of its methods_list *)
Within(c) == {c} \cup {methods_list(c)[i] : i \in 1 .. Len(methods_list(c))}

(* the Contexts with every table outside c and its method tables emptied *)
Confined(cs, c) == [d \in CtxIds |-> IF d \in Within(c) THEN cs[d] ELSE EmptyCtx]

(* C22: for an access that is not local, rec_get_var_info is confined to   *)
(* the given Context and its method tables: its result is the one it gives *)
(* with every other Context empty, a binding or error it returns comes     *)
(* from these Contexts, and a candidate whose visibility is incompatible   *)
(* ends the search with the visibility error.                              *)
C22_NonLocalConfined ==
    (resolved # Unresolved /\ ~query.local) =>
        /\ resolved = rec_get_var_info(Confined(ctxs, query.ctx), query.ctx, FALSE)
        /\ resolved.kind = "Ok" => resolved.vi.ctx \in Within(query.ctx)
        /\ resolved.kind = "Err" => resolved.at \in Within(query.ctx)
        /\ LET vi == get_current_scope_var(ctxs, query.ctx)
           IN  (vi.present /\ ~vi.compat) => resolved = TripleErr("visibility", query.ctx)

(* an attribute access to the class met the class's invisible binding and  *)
(* returned the visibility error, the module holding a visible one          *)
C22_Witness ==
    /\ query = [ctx |-> ClassCtx, local |-> FALSE]
    /\ ctxs[ClassCtx].locals.present /\ ~ctxs[ClassCtx].locals.compat
    /\ ctxs[ModuleCtx].locals.present /\ ctxs[ModuleCtx].locals.compat
    /\ ctxs[ModuleCtx].locals.matches
    /\ resolved = TripleErr("visibility", ClassCtx)

(* C21: the Context asked looks at its locals, then at its forward         *)
(* declarations, then at its deleted variables and only then at its        *)
(* parameters and method tables: a name in future_defined_locals and not   *)
(* in locals yields the access-before-definition error, and a name in      *)
(* deleted_locals (and in neither of the former) the                       *)
(* access-to-deleted-variable error, also when a parameter or declaration  *)
(* of the same name exists.                                                *)
C21_SearchOrder ==
    (resolved # Unresolved /\ ~ctxs[query.ctx].locals.present) =>
        /\ ctxs[query.ctx].future_defined_locals
            => resolved = TripleErr("access_before_def", query.ctx)
        /\ (ctxs[query.ctx].deleted_locals /\ ~ctxs[query.ctx].future_defined_locals)
            => resolved = TripleErr("access_deleted_var", query.ctx)

(* ---------------- call substitution (context/inquire.rs) ---------------- *)

NoName == ""
SelfName == "self"
KwNames == {"x", "y", "z", "w"}

(* the signatures: optional self, up to two further non-default parameters  *)
(* (x, y, each possibly unnamed), an optional variadic parameter and an     *)
(* optional default parameter z                                            *)
PlainNonDefaults ==
    {<<>>} \cup {<<a>> : a \in {"x", NoName}}
           \cup {<<a, b>> : a \in {"x", NoName}, b \in {"y", NoName}}
NonDefaults == PlainNonDefaults \cup {<<SelfName>> \o s : s \in PlainNonDefaults}
Subrs ==
    {[nd |-> n, var |-> v, dflt |-> d, is_method |-> m] :
        n \in NonDefaults, v \in BOOLEAN, d \in {<<>>, <<"z">>}, m \in BOOLEAN}

(* SubrType::self_t is Some only if the first parameter is self *)
has_self(sb) == Len(sb.nd) > 0 /\ sb.nd[1] = SelfName

KwSeqs(n) == [1 .. n -> KwNames]

NoArgs == [npos |-> 0, kw |-> <<>>, bad |-> {}, self_bad |-> FALSE, dflt_bad |-> FALSE]
NoOutcome == [ok |-> FALSE, errs |-> <<>>, done |-> FALSE]

Error(kind, name, nth, names) == [kind |-> kind, name |-> name, nth |-> nth, names |-> names]
too_many_args_error == Error("TooManyArgs", NoName, 0, <<>>)
unexpected_kw_arg_error(name) == Error("UnexpectedKwArg", name, 0, <<>>)
multiple_args_error(name) == Error("DuplicateArg", name, 0, <<>>)
args_missing_error(names) == Error("MissingArgs", NoName, 0, names)
type_mismatch_error(name, nth) == Error("TypeMismatch", name, nth, <<>>)
sub_unify_error(name) == Error("SubUnify", name, 0, <<>>)

SeqRange(sq) == {sq[i] : i \in 1 .. Len(sq)}

(* SubrType::param_names restricted to the parameters a keyword can name, line 1766-1770 *)
kw_params(sb) == SeqRange(sb.nd \o sb.dflt) \ {NoName}

(* Context::substitute_pos_arg, line 1635-1702; st = [passed, errs, nth] *)
substitute_pos_arg(st, param, a) ==
    IF param # NoName /\ param \in st.passed
    THEN [st EXCEPT !.errs = Append(@, multiple_args_error(param))]
    ELSE LET st1 == IF param # NoName THEN [st EXCEPT !.passed = @ \cup {param}] ELSE st
         IN  IF st.nth \in a.bad
             THEN [st1 EXCEPT !.errs = Append(@, type_mismatch_error(param, st.nth))]
             ELSE st1

(* Context::substitute_var_arg, line 1704-1743 *)
substitute_var_arg(st, a) ==
    IF st.nth \in a.bad
    THEN [st EXCEPT !.errs = Append(@, type_mismatch_error("*", st.nth))]
    ELSE st

(* Context::substitute_kw_arg, line 1745-1819 *)
substitute_kw_arg(st, kw, sb, a) ==
    IF kw \in st.passed
    THEN [st EXCEPT !.errs = Append(@, multiple_args_error(kw))]
    ELSE IF kw \in kw_params(sb)
    THEN LET st1 == [st EXCEPT !.passed = @ \cup {kw}]
         IN  IF st.nth \in a.bad
             THEN [st1 EXCEPT !.errs = Append(@, type_mismatch_error(kw, st.nth))]
             ELSE st1
    ELSE [st EXCEPT !.errs = Append(@, unexpected_kw_arg_error(kw))]

Bump(st) == [st EXCEPT !.nth = @ + 1]

(* the loops of substitute_call over positional, variadic and keyword arguments *)
RECURSIVE pos_args_loop(_, _, _, _)
pos_args_loop(st, params, i, a) ==
    IF i > Len(params) THEN st
    ELSE pos_args_loop(Bump(substitute_pos_arg(st, params[i], a)), params, i + 1, a)

RECURSIVE var_args_loop(_, _, _)
var_args_loop(st, n, a) ==
    IF n = 0 THEN st ELSE var_args_loop(Bump(substitute_var_arg(st, a)), n - 1, a)

RECURSIVE kw_args_loop(_, _, _, _)
kw_args_loop(st, i, sb, a) ==
    IF i > Len(a.kw) THEN st
    ELSE kw_args_loop(Bump(substitute_kw_arg(st, a.kw[i], sb, a)), i + 1, sb, a)

(* substitute_call, line 1435-1446 : defaults that were not passed *)
RECURSIVE not_passed_loop(_, _, _, _)
not_passed_loop(st, i, sb, a) ==
    IF i > Len(sb.dflt) THEN st
    ELSE LET d == sb.dflt[i]
             st1 == IF d \notin st.passed /\ a.dflt_bad
                    THEN [st EXCEPT !.errs = Append(@, sub_unify_error(d))]
                    ELSE st
         IN  not_passed_loop(st1, i + 1, sb, a)

Take(sq, n) == SubSeq(sq, 1, IF n < Len(sq) THEN n ELSE Len(sq))

(* Context::gen_too_many_args_error, line 1562-1633 *)
gen_too_many_args_error(sb, a) ==
    LET idx == 1 .. Len(a.kw)
        unknown == SelectSeq([i \in idx |-> IF a.kw[i] \notin kw_params(sb) THEN a.kw[i] ELSE NoName],
                             LAMBDA n : n # NoName)
        duplicated == SelectSeq([i \in idx |-> IF \E j \in 1 .. (i - 1) : a.kw[j] = a.kw[i]
                                               THEN a.kw[i] ELSE NoName],
                                LAMBDA n : n # NoName)
    IN  IF unknown = <<>> /\ duplicated = <<>>
        THEN <<too_many_args_error>>
        ELSE [i \in 1 .. Len(unknown) |-> unexpected_kw_arg_error(unknown[i])]
             \o [i \in 1 .. Len(duplicated) |-> multiple_args_error(duplicated[i])]

(* substitute_call, line 1476-1481 *)
missing_params(sb, passed) ==
    SelectSeq([i \in 1 .. Len(sb.nd) |-> IF sb.nd[i] = NoName THEN "_" ELSE sb.nd[i]],
              LAMBDA n : n \notin passed)

Result(errs) == [ok |-> errs = <<>>, errs |-> errs, done |-> TRUE]

(* Context::substitute_call, the Type::Subr arm, line 1340-1501 *)
substitute_call(sb, a) ==
    LET params_len == Len(sb.nd) + Len(sb.dflt)
        nkw == Len(a.kw)
        st0 == [passed |-> {},
                errs |-> IF sb.is_method /\ a.self_bad THEN <<sub_unify_error(SelfName)>> ELSE <<>>,
                nth |-> 1]
        non_default_params == IF sb.is_method THEN Tail(sb.nd) ELSE sb.nd
        non_default_params_len == Len(non_default_params)
    IN  IF (params_len < a.npos \/ params_len < a.npos + nkw) /\ ~sb.var
        THEN Result(gen_too_many_args_error(sb, a))
        ELSE IF a.npos >= non_default_params_len
        THEN LET st1 == pos_args_loop(st0, non_default_params, 1, a)
                 nvar == a.npos - non_default_params_len
                 st2 == IF sb.var THEN var_args_loop(st1, nvar, a)
                        ELSE pos_args_loop(st1, Take(sb.dflt, nvar), 1, a)
                 st3 == kw_args_loop(st2, 1, sb, a)
                 st4 == not_passed_loop(st3, 1, sb, a)
             IN  Result(st4.errs)
        ELSE LET st1 == pos_args_loop(st0, Take(non_default_params \o sb.dflt, a.npos), 1, a)
                 st2 == kw_args_loop(st1, 1, sb, a)
                 missing == missing_params(sb, st2.passed)
             IN  IF missing # <<>> THEN Result(<<args_missing_error(missing)>>)
                 ELSE Result(st2.errs)

NoSubr == [nd |-> <<>>, var |-> FALSE, dflt |-> <<>>, is_method |-> FALSE]

(* no call is being substituted *)
CIdle == subr = NoSubr /\ args = NoArgs /\ outcome = NoOutcome

CInit ==
    /\ subr \in {sb \in Subrs : sb.is_method => has_self(sb)}
    /\ args = NoArgs
    /\ outcome = NoOutcome

(* substitute_call(obj, attr_name, instance, pos_args, kw_args) is called   *)
(* with npos positional arguments and the keyword arguments kw; bad,        *)
(* self_bad and dflt_bad say which of its sub_unify calls fail              *)
SubstituteCall ==
    /\ ~outcome.done
    /\ \E npos \in 0 .. MaxPos, nkw \in 0 .. MaxKw :
         \E kw \in KwSeqs(nkw), bad \in SUBSET (1 .. (npos + nkw)),
            self_bad \in {FALSE, subr.is_method}, dflt_bad \in {FALSE, subr.dflt # <<>>} :
             LET a == [npos |-> npos, kw |-> kw, bad |-> bad, self_bad |-> self_bad,
                       dflt_bad |-> dflt_bad]
             IN  /\ args' = a
                 /\ outcome' = substitute_call(subr, a)
    /\ UNCHANGED subr

CNext == SubstituteCall /\ UNCHANGED <<pvars, rvars, evars, gvars, kvars>>

(* the non-default parameters (by position) the call leaves unfilled: the    *)
(* receiver fills self, positional arguments the next ones in order, keyword *)
(* arguments the ones they name                                              *)
Unfilled(sb, a) ==
    LET off == IF sb.is_method THEN 1 ELSE 0
    IN  {i \in 1 .. Len(sb.nd) :
            /\ i > off + a.npos
            /\ ~(sb.nd[i] # NoName /\ sb.nd[i] \in SeqRange(a.kw))}

UnfilledNames(sb, a) ==
    SelectSeq([i \in 1 .. Len(sb.nd) |-> IF i \notin Unfilled(sb, a) THEN "" ELSE
                                         IF sb.nd[i] = NoName THEN "_" ELSE sb.nd[i]],
              LAMBDA n : n # "")

(* C10: for a signature without a variadic parameter, a call (function or   *)
(* method call, named or unnamed parameters) with fewer arguments than the  *)
(* signature has non-default parameters, which leaves some of them          *)
(* unfilled, yields exactly one error, the MissingArgs error that lists the *)
(* unfilled non-default parameters in order.                                *)
C10_MissingArgsExact ==
    (/\ outcome.done
     /\ ~subr.var
     /\ args.npos + Len(args.kw) < Len(subr.nd)
     /\ Unfilled(subr, args) # {})
    => outcome.errs = <<args_missing_error(UnfilledNames(subr, args))>>

(* C11: a call with two keyword arguments of the same name yields a         *)
(* DuplicateArg error that names the keyword, whatever the other arguments  *)
(* are.                                                                     *)
C11_DuplicateKwReported ==
    outcome.done
    => \A i, j \in 1 .. Len(args.kw) :
           (i < j /\ args.kw[i] = args.kw[j])
           => \E k \in 1 .. Len(outcome.errs) :
                  outcome.errs[k] = multiple_args_error(args.kw[i])

(* the parameters other than the one the receiver of a method call fills *)
PlainParams(sb) == IF sb.is_method THEN Tail(sb.nd) ELSE sb.nd

(* the default parameters (by position) that no argument of the call fills *)
UnfilledDefaults(sb, a) ==
    {i \in 1 .. Len(sb.dflt) :
        /\ sb.dflt[i] \notin SeqRange(a.kw)
        /\ (sb.var \/ a.npos < Len(PlainParams(sb)) + i)}

(* C12: a successful call unified every default parameter that no argument  *)
(* filled against its own default value: when that unification fails and    *)
(* some default parameter is unfilled, the call does not succeed, whether   *)
(* the non-default parameters were filled by position or by keyword.        *)
C12_DefaultsUnified ==
    (outcome.done /\ outcome.ok /\ UnfilledDefaults(subr, args) # {})
    => ~args.dflt_bad

(* the call has more arguments than the signature can take *)
TooManyArgs(sb, a) ==
    ~sb.var /\ a.npos + Len(a.kw) > Len(PlainParams(sb)) + Len(sb.dflt)

(* the parameter the i-th positional argument is paired with: non-default   *)
(* parameters in order, then the variadic parameter, else the defaults      *)
PairedParam(sb, i) ==
    LET plain == PlainParams(sb)
    IN  IF i <= Len(plain) THEN plain[i]
        ELSE IF sb.var THEN "*"
        ELSE IF i - Len(plain) <= Len(sb.dflt) THEN sb.dflt[i - Len(plain)]
        ELSE "none"

(* the names of the parameters the positional arguments fill *)
FilledByPosition(sb, a) == {PairedParam(sb, i) : i \in 1 .. a.npos} \ {NoName, "*", "none"}

(* the j-th keyword argument names a parameter that nothing filled before it *)
KwFills(sb, a, j) ==
    /\ a.kw[j] \in kw_params(sb)
    /\ a.kw[j] \notin FilledByPosition(sb, a)
    /\ \A h \in 1 .. (j - 1) : a.kw[h] # a.kw[j]

HasError(e) == \E k \in 1 .. Len(outcome.errs) : outcome.errs[k] = e

(* C13: the errors of a call (one that does not have too many arguments)    *)
(* contain the error of the receiver, of every positional or variadic       *)
(* argument and of every keyword argument whose unification failed, also    *)
(* when a non-default parameter is missing.                                 *)
C13_AllErrorsCollected ==
    (outcome.done /\ ~TooManyArgs(subr, args))
    => /\ (subr.is_method /\ args.self_bad) => HasError(sub_unify_error(SelfName))
       /\ \A i \in 1 .. args.npos :
              i \in args.bad => HasError(type_mismatch_error(PairedParam(subr, i), i))
       /\ \A j \in 1 .. Len(args.kw) :
              (args.npos + j \in args.bad /\ KwFills(subr, args, j))
              => HasError(type_mismatch_error(args.kw[j], args.npos + j))

(* C14: a call with more arguments than the signature has parameters (and   *)
(* no variadic parameter) fails with TooManyArgs or with the unknown /      *)
(* duplicate keyword errors, for function and method calls alike; in a call *)
(* that succeeds every positional argument was unified with its parameter.  *)
C14_NoArgumentDropped ==
    /\ (outcome.done /\ TooManyArgs(subr, args))
       => \E k \in 1 .. Len(outcome.errs) :
              outcome.errs[k].kind \in {"TooManyArgs", "UnexpectedKwArg", "DuplicateArg"}
    /\ (outcome.done /\ outcome.ok) => \A i \in 1 .. args.npos : i \notin args.bad

(* ---------------- attribute lookup (context/inquire.rs) ---------------- *)

(* A type is a chain of wrappers around a base type.  The wrappers are the  *)
(* arms get_attr_info_from_attributive looks through: a linked free         *)
(* variable, an unbound free variable (with or without a sub bound; the     *)
(* next element is its super bound), Ref, RefMut, Refinement, Structural.   *)
Wrappers == {"Linked", "UnboundSub", "Unbound", "Ref", "RefMut", "Refinement", "Structural"}

FieldNames == {"x", "y"}
NoField == [t |-> "none", id |-> 0, vis |-> "none"]
Field(t, id, vis) == [t |-> t, id |-> id, vis |-> vis]
Fields == {NoField} \cup {Field(t, 0, v) : t \in {"Int", "Str"}, v \in {"Public", "Private"}}

NoFields == [n \in FieldNames |-> NoField]
Never == [k |-> "Never", fields |-> NoFields]
Mono == [k |-> "Mono", fields |-> NoFields]
Record(fs) == [k |-> "Record", fields |-> fs]
BaseTypes == {Never, Mono} \cup {Record(fs) : fs \in [FieldNames -> Fields]}

WrapSeqs == UNION {[1 .. n -> Wrappers] : n \in 0 .. MaxDeref}
Types == {[wraps |-> w, base |-> b] : w \in WrapSeqs, b \in BaseTypes}
NoType == [wraps |-> <<>>, base |-> Mono]

(* the results of the lookup steps *)
NoAttr == [kind |-> "unset", via |-> "none", t |-> "none", id |-> 0, vis |-> "none"]
AttrNone == [kind |-> "None", via |-> "none", t |-> "none", id |-> 0, vis |-> "none"]
AttrOk(via, t, id, vis) == [kind |-> "Ok", via |-> via, t |-> t, id |-> id, vis |-> vis]
AttrErr(via) == [kind |-> "Err", via |-> via, t |-> "none", id |-> 0, vis |-> "none"]

(* What the steps after the attributive lookup meet.                        *)
(* singular: obj names no module or type (get_singular_ctxs_by_hir_expr     *)
(* is Err), or the result of rec_get_var_info over its singular Contexts;   *)
(* bound: the result of get_bound_attr_from_nominal_t, an Ok whose self     *)
(* type does not unify with the object's type apart;                        *)
(* patch: no patch holds the name, or the binding found is visible or not;  *)
(* index: the result of get_attr_type_by_name, an Ok whose definition type  *)
(* does not unify with the object's type apart.                             *)
Singulars == {"NoSingular", "None", "Ok", "Err"}
Bounds == {"None", "Ok", "SelfMismatch", "Err"}
Patches == {"None", "Visible", "Invisible"}
Indexes == {"None", "Ok", "DefMismatch", "Err"}

(* the build (PYTHON_MODE) and the facts of the call's arguments:           *)
(* obj.var_info() is an untyped parameter, vi.vis.compatible(..) of the     *)
(* binding made for a record field, what the later steps meet               *)
Builds ==
    [python_mode : BOOLEAN, untyped : BOOLEAN, compat : BOOLEAN,
     singular : Singulars, bound : Bounds, patch : Patches, index : Indexes]

(* the builds in which only the singular Contexts may hold the attribute *)
SingularBuilds ==
    [python_mode : BOOLEAN, untyped : BOOLEAN, compat : BOOLEAN,
     singular : {"None", "Ok", "Err"}, bound : {"None"}, patch : {"None"}, index : {"None"}]
NoAttrQuery == [ident |-> "none", t |-> NoType, n |-> 0]

(* Context::get_attr_info_from_attributive, line 750-796 *)
RECURSIVE get_attr_info_from_attributive(_, _, _, _)
get_attr_info_from_attributive(ws, base, ident, compat) ==
    IF ws # <<>> THEN get_attr_info_from_attributive(Tail(ws), base, ident, compat)
    ELSE IF base.k = "Never" THEN AttrOk("attributive", "ILLEGAL", 0, "Private")
    ELSE IF base.k = "Record"
    THEN LET field == base.fields[ident]
         IN  IF field = NoField THEN AttrNone
             ELSE IF ~validate_visibility([compat |-> compat]) THEN AttrErr("attributive")
             ELSE AttrOk("attributive", field.t, field.id, field.vis)
    ELSE AttrNone

(* get_attr_info, line 555-578 : the type of an untyped parameter with a    *)
(* sub bound gets the structural record of the requested field as its super *)
update_super(t, ident, id) ==
    IF t.wraps # <<>> /\ t.wraps[1] = "UnboundSub"
    THEN [wraps |-> <<"UnboundSub", "Structural">>,
          base |-> Record([NoFields EXCEPT ![ident] = Field("Free", id, "Public")])]
    ELSE t

(* erg_common::consts::ERG_MODE : the build that is not the interop build *)
ERG_MODE(b) == ~b.python_mode

(* get_attr_info, line 590-604 : the singular Contexts *)
singular_step(b) ==
    IF b.singular = "Ok" THEN AttrOk("singular", "Bool", 0, "Public")
    ELSE IF b.singular = "Err" THEN AttrErr("singular")
    ELSE AttrNone

(* get_attr_info, line 606-626 : the nominal super type Contexts *)
bound_step(b) ==
    IF b.bound = "Ok" THEN AttrOk("bound", "Bool", 0, "Public")
    ELSE IF b.bound \in {"SelfMismatch", "Err"} THEN AttrErr("bound")
    ELSE AttrNone

(* get_attr_info, line 627-650 : the patches *)
patch_step(b) ==
    IF b.patch = "None" THEN AttrNone
    ELSE IF validate_visibility([compat |-> b.patch = "Visible"])
    THEN AttrOk("patch", "Bool", 0, "Public")
    ELSE AttrErr("patch")

(* get_attr_info, line 651-663 : the method index *)
index_step(b) ==
    IF b.index = "Ok" THEN AttrOk("index", "Bool", 0, "Public")
    ELSE IF b.index = "DefMismatch" THEN AttrErr("index")
    ELSE IF b.index = "Err" /\ ERG_MODE(b) THEN AttrErr("index")
    ELSE AttrNone

(* the result of the first step of the sequence that is not Triple::None *)
RECURSIVE first_result(_)
first_result(steps) ==
    IF steps = <<>> THEN AttrNone
    ELSE IF Head(steps).kind # "None" THEN Head(steps)
    ELSE first_result(Tail(steps))

(* the steps after the attributive lookup, the method index first *)
later_steps_index_first(b) ==
    first_result(<<index_step(b), patch_step(b), bound_step(b), singular_step(b)>>)

(* get_attr_info, line 590-663 : the steps after the attributive lookup *)
later_steps(b) ==
    first_result(<<singular_step(b), bound_step(b), patch_step(b), index_step(b)>>)

(* a get_attr_info that runs the later steps before the attributive lookup *)
get_attr_info_rest_first(b, t, ident, id) ==
    IF b.python_mode /\ b.untyped THEN AttrOk("placeholder", "Free", id, "Public")
    ELSE IF later_steps(b).kind # "None" THEN later_steps(b)
    ELSE get_attr_info_from_attributive(t.wraps, t.base, ident, b.compat)

(* Context::get_attr_info, line 546-664 : its result *)
get_attr_info(b, t, ident, id) ==
    IF b.python_mode /\ b.untyped THEN AttrOk("placeholder", "Free", id, "Public")
    ELSE LET r == get_attr_info_from_attributive(t.wraps, t.base, ident, b.compat)
         IN  IF r.kind # "None" THEN r ELSE later_steps(b)

NoBuild ==
    [python_mode |-> FALSE, untyped |-> FALSE, compat |-> FALSE,
     singular |-> "None", bound |-> "None", patch |-> "None", index |-> "None"]

(* no attribute is being looked up *)
AIdle == build = NoBuild /\ objT = NoType /\ attrQuery = NoAttrQuery /\ attrResult = NoAttr

AInit ==
    /\ build \in SingularBuilds
    /\ objT \in Types
    /\ attrQuery = NoAttrQuery
    /\ attrResult = NoAttr

(* get_attr_info(obj, ident, input, namespace) is called *)
GetAttrInfo(ident) ==
    /\ attrQuery.n < MaxAccesses
    /\ attrQuery' = [ident |-> ident, t |-> objT, n |-> attrQuery.n + 1]
    /\ attrResult' = get_attr_info(build, objT, ident, attrQuery.n + 1)
    /\ objT' = IF build.python_mode /\ build.untyped
               THEN update_super(objT, ident, attrQuery.n + 1) ELSE objT
    /\ UNCHANGED build

ANext == \E ident \in FieldNames : GetAttrInfo(ident) /\ UNCHANGED <<pvars, rvars, cvars, nvars, svars, tvars, lvars, mvars, hvars, gvars, kvars>>

(* the object's type at the call was, behind its wrappers, a record that has *)
(* the requested field                                                       *)
RecordField ==
    IF attrQuery.ident \in FieldNames /\ attrQuery.t.base.k = "Record"
    THEN attrQuery.t.base.fields[attrQuery.ident]
    ELSE NoField

(* C15 as stated: whenever the object's type is, behind its wrappers, a     *)
(* record with the requested field, get_attr_info returns the binding of    *)
(* that field (its type, its declared visibility) from the attributive      *)
(* step, before every other step.                                           *)
C15_RecordFieldFirst ==
    RecordField # NoField
    => attrResult = AttrOk("attributive", RecordField.t, RecordField.id, RecordField.vis)

(* C15 amended: unless the build is the interop build and the object an     *)
(* untyped parameter (then the placeholder step answers first), the         *)
(* attributive step decides the lookup of a record field before every later *)
(* step: it returns the field's type and declared visibility when the       *)
(* access is visibility-compatible, and the visibility error otherwise.     *)
C15_RecordFieldUnlessPlaceholder ==
    (RecordField # NoField /\ ~(build.python_mode /\ build.untyped))
    => attrResult = IF build.compat
                    THEN AttrOk("attributive", RecordField.t, RecordField.id, RecordField.vis)
                    ELSE AttrErr("attributive")

(* the public Int field x of a record behind a wrapper was returned although *)
(* a later step has a binding for the name                                   *)
C15_Witness ==
    /\ attrQuery.ident = "x"
    /\ attrQuery.t.wraps # <<>>
    /\ RecordField = Field("Int", 0, "Public")
    /\ build.singular = "Ok"
    /\ attrResult = AttrOk("attributive", "Int", 0, "Public")

(* the types the steps are tried on: no record, Never, and {x: Int, y: Str} *)
StepTypes ==
    {[wraps |-> <<>>, base |-> b] :
        b \in {Mono, Never,
               Record([NoFields EXCEPT !["x"] = Field("Int", 0, "Public"),
                                       !["y"] = Field("Str", 0, "Public")])}}

StepsInit ==
    /\ build \in Builds
    /\ objT \in StepTypes
    /\ attrQuery = NoAttrQuery
    /\ attrResult = NoAttr

(* the steps of get_attr_info in their order *)
StepNames == <<"attributive", "singular", "bound", "patch", "index">>

(* what the step k met at the call: a binding, an error, or nothing *)
Met(k) ==
    IF k = 1 THEN
        IF attrQuery.t.base.k = "Never" THEN "Ok"
        ELSE IF RecordField = NoField THEN "None"
        ELSE IF build.compat THEN "Ok" ELSE "Err"
    ELSE IF k = 2 THEN
        IF build.singular \in {"Ok", "Err"} THEN build.singular ELSE "None"
    ELSE IF k = 3 THEN
        IF build.bound = "Ok" THEN "Ok" ELSE IF build.bound = "None" THEN "None" ELSE "Err"
    ELSE IF k = 4 THEN
        IF build.patch = "Visible" THEN "Ok" ELSE IF build.patch = "None" THEN "None" ELSE "Err"
    ELSE IF build.index = "Ok" THEN "Ok" ELSE IF build.index = "None" THEN "None" ELSE "Err"

(* the step k is reached: no step before it met a binding or an error *)
Reached(k) == \A j \in 1 .. (k - 1) : Met(j) = "None"

Placeholder == build.python_mode /\ build.untyped

(* C23 as stated: the steps are tried in the order attributive, singular,  *)
(* bound, patch, method index, and the binding of the first step that has  *)
(* one is returned.                                                        *)
C23_FirstStepWins ==
    attrResult # NoAttr =>
        \A k \in 1 .. 5 :
            (Reached(k) /\ Met(k) = "Ok") =>
                attrResult.kind = "Ok" /\ attrResult.via = StepNames[k]

(* C23 amended: in the interop build an object that is an untyped          *)
(* parameter is answered by the placeholder step and no other step is      *)
(* tried; in every other case the steps are tried in the order             *)
(* attributive, singular, bound, patch, method index, and the binding of   *)
(* the first step that has one is returned.                                *)
C23_FirstStepAfterPlaceholder ==
    attrResult # NoAttr =>
        IF Placeholder THEN attrResult.kind = "Ok" /\ attrResult.via = "placeholder"
        ELSE \A k \in 1 .. 5 :
                (Reached(k) /\ Met(k) = "Ok") =>
                    attrResult.kind = "Ok" /\ attrResult.via = StepNames[k]

(* the nominal super types' binding was returned although a patch and the  *)
(* method index hold the name too                                          *)
C23_Witness ==
    /\ ~Placeholder
    /\ Reached(3)
    /\ build.bound = "Ok" /\ build.patch = "Visible" /\ build.index = "Ok"
    /\ attrResult = AttrOk("bound", "Bool", 0, "Public")

(* C24: an error raised by a step that is reached aborts the search and is *)
(* returned: the search neither ends as not-found nor goes on to a later   *)
(* step.                                                                   *)
C24_ErrorsAbort ==
    (attrResult # NoAttr /\ ~Placeholder) =>
        \A k \in 1 .. 5 :
            (Reached(k) /\ Met(k) = "Err") =>
                attrResult.kind = "Err" /\ attrResult.via = StepNames[k]

(* ---------------- nominal super types (context/inquire.rs) ---------------- *)

(* The nominal types: a class hierarchy is acyclic, so a type declares as   *)
(* its super types only types that come after it in this order.             *)
TypeNames == {"A", "B", "Obj"}

Rank == ("A" :> 1) @@ ("B" :> 2) @@ ("Obj" :> 3)

SeqsUpTo(S, k) == UNION {[1 .. i -> S] : i \in 0 .. k}

(* the fields of a type's Context that get_simple_nominal_super_type_ctxs reads *)
TypeCtx(name, sc, st) == [name |-> name, super_classes |-> sc, super_traits |-> st]

(* get_mono_type finds no Context *)
Unregistered == TypeCtx("", <<>>, <<>>)

DeclarableBy(n) == {m \in TypeNames : Rank[m] > Rank[n]}

CtxsOf(n) ==
    {Unregistered} \cup
    {TypeCtx(n, sc, st) : sc \in SeqsUpTo(DeclarableBy(n), MaxSupers),
                          st \in SeqsUpTo(DeclarableBy(n), MaxSupers)}

SeqRan(q) == {q[i] : i \in 1 .. Len(q)}

(* The registries: the declared super types of a registered type are       *)
(* registered (line 2208-2210 treats anything else as a compiler bug).     *)
Registries ==
    {r \in [TypeNames -> UNION {CtxsOf(n) : n \in TypeNames}] :
        \A n \in TypeNames :
            /\ r[n] \in CtxsOf(n)
            /\ \A m \in SeqRan(r[n].super_classes) \cup SeqRan(r[n].super_traits) :
                    r[m] # Unregistered}

(* The types asked for: a nominal type, an intersection or a union of two, *)
(* behind free variables that are linked or bounded from above.            *)
FreeVars == {"Linked", "UnboundSup"}

SuperArgs ==
    [wraps : SeqsUpTo(FreeVars, MaxDeref), tag : {"Mono"}, l : TypeNames, r : {""}] \cup
    [wraps : SeqsUpTo(FreeVars, MaxDeref), tag : {"And", "Or"}, l : TypeNames, r : TypeNames]

NoSuperArg == [wraps |-> <<>>, tag |-> "", l |-> "", r |-> ""]

NoCtxs == [some |-> FALSE, ctxs |-> <<>>]

SomeCtxs(cs) == [some |-> TRUE, ctxs |-> cs]

(* Context::get_nominal_type_ctx, Type::Mono *)
get_nominal_type_ctx(reg, name) == reg[name]

(* the Contexts of the declared super types before the type's own Context *)
get_simple_nominal_super_type_ctxs_own_last(reg, name) ==
    LET ctx == get_nominal_type_ctx(reg, name)
        sups == [i \in 1 .. Len(ctx.super_classes) |->
                    get_nominal_type_ctx(reg, ctx.super_classes[i])]
                \o [i \in 1 .. Len(ctx.super_traits) |->
                    get_nominal_type_ctx(reg, ctx.super_traits[i])]
    IN  IF ctx = Unregistered THEN NoCtxs ELSE SomeCtxs(sups \o <<ctx>>)

(* Context::get_simple_nominal_super_type_ctxs *)
get_simple_nominal_super_type_ctxs(reg, name) ==
    LET ctx == get_nominal_type_ctx(reg, name)
        sups == [i \in 1 .. Len(ctx.super_classes) |->
                    get_nominal_type_ctx(reg, ctx.super_classes[i])]
                \o [i \in 1 .. Len(ctx.super_traits) |->
                    get_nominal_type_ctx(reg, ctx.super_traits[i])]
    IN  IF ctx = Unregistered THEN NoCtxs ELSE SomeCtxs(<<ctx>> \o sups)

(* Context::get_nominal_super_type_ctxs; a free variable is followed to   *)
(* the type it is linked to (crack) or to its upper bound (get_super)     *)
RECURSIVE get_nominal_super_type_ctxs(_, _)
get_nominal_super_type_ctxs(reg, t) ==
    IF t.wraps # <<>> THEN get_nominal_super_type_ctxs(reg, [t EXCEPT !.wraps = Tail(t.wraps)])
    ELSE IF t.tag = "And" THEN
        LET l == get_simple_nominal_super_type_ctxs(reg, t.l)
            r == get_simple_nominal_super_type_ctxs(reg, t.r)
        IN  IF l.some /\ r.some THEN SomeCtxs(l.ctxs \o r.ctxs)
            ELSE IF l.some THEN l
            ELSE IF r.some THEN r
            ELSE NoCtxs
    ELSE IF t.tag = "Or" THEN
        LET obj == get_nominal_type_ctx(reg, "Obj")
        IN  IF obj = Unregistered THEN NoCtxs ELSE SomeCtxs(<<obj>>)
    ELSE get_simple_nominal_super_type_ctxs(reg, t.l)

NIdle == registry = [n \in TypeNames |-> Unregistered] /\ superQuery = NoSuperArg /\ superResult = NoCtxs

NInit == registry \in Registries /\ superQuery = NoSuperArg /\ superResult = NoCtxs

GetNominalSuperTypeCtxs(t) ==
    /\ superQuery' = t
    /\ superResult' = get_nominal_super_type_ctxs(registry, t)
    /\ UNCHANGED registry

(* one call for each registry *)
NNext ==
    /\ superQuery = NoSuperArg
    /\ \E t \in SuperArgs : GetNominalSuperTypeCtxs(t)
    /\ UNCHANGED <<pvars, rvars, cvars, avars, svars, tvars, lvars, mvars, hvars, gvars, kvars>>

(* C16: for a nominal type T with a registered Context,                    *)
(* get_nominal_super_type_ctxs(T) holds T's own Context first, before the  *)
(* Context of every declared super-class and super-trait, and holds        *)
(* nothing but these (one level of declared super types).                  *)
C16_OwnContextFirst ==
    (superQuery.tag = "Mono" /\ registry[superQuery.l] # Unregistered) =>
        LET own == registry[superQuery.l]
            declared == own.super_classes \o own.super_traits
            cs == superResult.ctxs
        IN  /\ superResult.some
            /\ Len(cs) = 1 + Len(declared)
            /\ cs[1] = own
            /\ \A i \in 1 .. Len(declared) : cs[i + 1] = registry[declared[i]]
            /\ \A i \in 2 .. Len(cs) : cs[i] # own

(* the super types of A, which declares the class B and the trait Obj, B   *)
(* itself declaring Obj: three Contexts, B's own super type not expanded   *)
C16_Witness ==
    /\ superQuery.tag = "Mono" /\ superQuery.l = "A"
    /\ registry["A"] = TypeCtx("A", <<"B">>, <<"Obj">>)
    /\ registry["B"] = TypeCtx("B", <<"Obj">>, <<>>)
    /\ superResult = SomeCtxs(<<registry["A"], registry["B"], registry["Obj"]>>)

(* ---------------- sort_types (context/inquire.rs) ---------------- *)

(* the types of the example in the documentation of sort_types *)
Tys == {"Int", "Str", "Nat", "Never", "Obj", "Str!", "Module"}

DocExample == <<"Int", "Str", "Nat", "Never", "Obj", "Str!", "Module">>

DocResult == <<"Never", "Nat", "Int", "Str!", "Str", "Module", "Obj">>

(* Context::subtype_of : Never is below and Obj above every type, Nat is  *)
(* below Int and Str! below Str                                           *)
subtype_of(l, r) ==
    l = r \/ l = "Never" \/ r = "Obj" \/ <<l, r>> \in {<<"Nat", "Int">>, <<"Str!", "Str">>}

(* Context::supertype_of *)
supertype_of(l, r) == subtype_of(r, l)

(* Context::related *)
related(l, r) == supertype_of(l, r) \/ subtype_of(l, r)

(* Context::cmp_t *)
cmp_t(l, r) ==
    IF supertype_of(l, r) /\ subtype_of(l, r) THEN "Equal"
    ELSE IF subtype_of(l, r) THEN "Less"
    ELSE IF supertype_of(l, r) THEN "Greater"
    ELSE "NoRelation"

SortInputs == SeqsUpTo(Tys, MaxTypes) \cup {DocExample}

Front(q) == SubSeq(q, 1, Len(q) - 1)

Last(q) == q[Len(q)]

SetMin(S) == CHOOSE x \in S : \A y \in S : x <= y

SetMax(S) == CHOOSE x \in S : \A y \in S : y <= x

(* sort_types, line 2075-2084 : t joins the first buffer all of whose     *)
(* members are related to it, or opens a new buffer                       *)
place(buffers, t) ==
    LET fits == {i \in 1 .. Len(buffers) :
                    \A j \in 1 .. Len(buffers[i]) : related(buffers[i][j], t)}
    IN  IF fits = {} THEN Append(buffers, <<t>>)
        ELSE [buffers EXCEPT ![SetMin(fits)] = Append(@, t)]

(* sort_types, line 2073-2085 *)
RECURSIVE partition(_)
partition(ts) == IF ts = <<>> THEN <<>> ELSE place(partition(Front(ts)), Last(ts))

(* sort_types, line 2086-2089 : the stable sort_by of one buffer by cmp_t *)
RECURSIVE sort_by(_)
sort_by(buf) ==
    IF buf = <<>> THEN <<>>
    ELSE LET s == sort_by(Front(buf))
             t == Last(buf)
             k == Cardinality({i \in 1 .. Len(s) : cmp_t(s[i], t) # "Greater"})
         IN  SubSeq(s, 1, k) \o <<t>> \o SubSeq(s, k + 1, Len(s))

(* sort_types, line 2090 *)
RECURSIVE flatten(_)
flatten(buffers) ==
    IF buffers = <<>> THEN <<>> ELSE sort_by(Head(buffers)) \o flatten(Tail(buffers))

(* Vec::remove(idx) followed by Vec::insert(pos, _), with indices from 1 *)
move(c, idx, pos) ==
    LET r == SubSeq(c, 1, idx - 1) \o SubSeq(c, idx + 1, Len(c))
    IN  SubSeq(r, 1, pos - 1) \o <<c[idx]>> \o SubSeq(r, pos, Len(r))

(* sort_types, line 2093-2103 : idx counts from 1, so take(len - idx - 1) *)
(* of the code keeps the first len - idx types                            *)
RECURSIVE slide(_, _, _)
slide(c, idx, len) ==
    IF idx > Len(c) THEN c
    ELSE LET maybe_sup == c[idx]
             found == {p \in 1 .. (len - idx) : supertype_of(maybe_sup, c[p])}
         IN  IF found = {} THEN slide(c, idx + 1, len)
             ELSE slide(move(c, idx, SetMax(found)), idx + 1, len)

(* Context::sort_types *)
sort_types(ts) ==
    LET concatenated == flatten(partition(ts))
    IN  slide(concatenated, 1, Len(concatenated))

SIdle == sortArg = <<>> /\ sortRes = <<>> /\ sortCalls = 0

SInit == sortArg \in SortInputs /\ sortRes = <<>> /\ sortCalls = 0

(* sort_types is called on the given types *)
SortTypes ==
    /\ sortCalls = 0
    /\ sortRes' = sort_types(sortArg)
    /\ sortCalls' = 1
    /\ UNCHANGED sortArg

(* sort_types is called on its own result *)
SortAgain ==
    /\ sortCalls > 0
    /\ sortCalls < MaxSorts
    /\ sortArg' = sortRes
    /\ sortRes' = sort_types(sortRes)
    /\ sortCalls' = sortCalls + 1

SNext ==
    \/ SortTypes /\ UNCHANGED <<pvars, rvars, cvars, avars, nvars, tvars, lvars, mvars, hvars, gvars, kvars>>
    \/ SortAgain /\ UNCHANGED <<pvars, rvars, cvars, avars, nvars, tvars, lvars, mvars, hvars, gvars, kvars>>

(* C17: sort_types is idempotent: called on its own result it returns     *)
(* that result unchanged.                                                  *)
C17_SortIdempotent == sortCalls >= 2 => sortRes = sortArg

(* the number of times t occurs in q *)
Count(q, t) == Cardinality({i \in 1 .. Len(q) : q[i] = t})

(* C18: the result of sort_types is a permutation of its input in which no *)
(* type precedes a type it is a proper supertype of, and for               *)
(* [Int, Str, Nat, Never, Obj, Str!, Module] it is                          *)
(* [Never, Nat, Int, Str!, Str, Module, Obj].                               *)
C18_SubtypesFirst ==
    sortCalls >= 1 =>
        /\ \A t \in Tys : Count(sortRes, t) = Count(sortArg, t)
        /\ \A i, j \in 1 .. Len(sortRes) :
                i < j => ~(sortRes[i] # sortRes[j] /\ supertype_of(sortRes[i], sortRes[j]))
        /\ sortArg = DocExample => sortRes = DocResult

(* ---------------- get_trait_impls (context/inquire.rs) ---------------- *)

TraitNames == {"Add", "Sub"}

ImplTypes == {"Int", "Bool"}

(* the trait `name` instantiated with the type argument arg, as Add(Int) *)
Poly(name, arg) == [tag |-> "Poly", name |-> name, arg |-> arg]

(* the type `l and r` *)
AndType(l, r) == [tag |-> "And", l |-> l, r |-> r]

(* TraitImpl::new *)
TraitImpl(sub_type, sup_trait) == [sub_type |-> sub_type, sup_trait |-> sup_trait]

(* the implementations that may be registered for a trait *)
ImplsOf(name) == {TraitImpl(t, Poly(name, arg)) : t \in ImplTypes, arg \in ImplTypes}

(* the tables: the implementations of each trait are registered under its name *)
TraitTables ==
    {tbl \in [TraitNames -> SUBSET UNION {ImplsOf(n) : n \in TraitNames}] :
        \A n \in TraitNames : tbl[n] \subseteq ImplsOf(n)}

(* {Int: Add(Int), Int: Sub(Int), Bool: Add(Bool)} *)
ExampleTable ==
    ("Add" :> {TraitImpl("Int", Poly("Add", "Int")), TraitImpl("Bool", Poly("Add", "Bool"))})
    @@ ("Sub" :> {TraitImpl("Int", Poly("Sub", "Int"))})

(* the trait expressions: a trait, or an intersection or a union of two expressions *)
Trait(name) == [tag |-> "Trait", name |-> name]

RECURSIVE TraitExprsUpTo(_)
TraitExprsUpTo(d) ==
    IF d = 0 THEN {Trait(n) : n \in TraitNames}
    ELSE LET sub == TraitExprsUpTo(d - 1)
         IN  sub \cup [tag : {"And", "Or"}, l : sub, r : sub]

TraitExprs == TraitExprsUpTo(MaxNest)

NoTraitQuery == [tag |-> "None"]

(* Context::intersection of two trait instantiations *)
intersection(l, r) == IF l = r THEN l ELSE AndType(l, r)

(* Context::get_simple_trait_impls : the Context and its outer Contexts   *)
(* read the same shared table, so the union over them is the table's set  *)
get_simple_trait_impls(tbl, name) == tbl[name]

(* get_trait_impls, line 2444-2448 *)
bases(l_impls, r_impls) ==
    {ti.sub_type : ti \in l_impls} \cap {ti.sub_type : ti \in r_impls}

(* get_trait_impls, line 2449-2456 : the sets the loop can build; find()  *)
(* returns the implementation of base that the iteration of the hash set  *)
(* meets first, so any of them when a side holds several                  *)
isecs(l_impls, r_impls) ==
    LET bs == bases(l_impls, r_impls)
        pairs == {<<lti, rti>> : lti \in l_impls, rti \in r_impls}
        finds == {f \in [bs -> pairs] :
                    \A b \in bs : f[b][1].sub_type = b /\ f[b][2].sub_type = b}
    IN  {{TraitImpl(f[b][1].sub_type, intersection(f[b][1].sup_trait, f[b][2].sup_trait)) :
            b \in bs} : f \in finds}

(* get_trait_impls with the intersection computed as the union is *)
RECURSIVE get_trait_impls_and_as_or(_, _)
get_trait_impls_and_as_or(tbl, e) ==
    IF e.tag = "Trait" THEN {get_simple_trait_impls(tbl, e.name)}
    ELSE {l_impls \cup r_impls : l_impls \in get_trait_impls_and_as_or(tbl, e.l),
                                 r_impls \in get_trait_impls_and_as_or(tbl, e.r)}

(* Context::get_trait_impls : the sets it can return *)
RECURSIVE get_trait_impls(_, _)
get_trait_impls(tbl, e) ==
    IF e.tag = "And" THEN
        UNION {isecs(l_impls, r_impls) : l_impls \in get_trait_impls(tbl, e.l),
                                         r_impls \in get_trait_impls(tbl, e.r)}
    ELSE IF e.tag = "Or" THEN
        {l_impls \cup r_impls : l_impls \in get_trait_impls(tbl, e.l),
                                r_impls \in get_trait_impls(tbl, e.r)}
    ELSE {get_simple_trait_impls(tbl, e.name)}

TIdle ==
    /\ traitImpls = [n \in TraitNames |-> {}]
    /\ traitQuery = NoTraitQuery
    /\ traitResult = {}

TInit == traitImpls \in TraitTables /\ traitQuery = NoTraitQuery /\ traitResult = {}

GetTraitImpls(e) ==
    /\ traitQuery' = e
    /\ traitResult' \in get_trait_impls(traitImpls, e)
    /\ UNCHANGED traitImpls

(* one call for each table *)
TNext ==
    /\ traitQuery = NoTraitQuery
    /\ \E e \in TraitExprs : GetTraitImpls(e)
    /\ UNCHANGED <<pvars, rvars, cvars, avars, nvars, svars, lvars, mvars, hvars, gvars, kvars>>

(* the types that implement the trait expression e *)
RECURSIVE Implementers(_, _)
Implementers(tbl, e) ==
    IF e.tag = "And" THEN Implementers(tbl, e.l) \cap Implementers(tbl, e.r)
    ELSE IF e.tag = "Or" THEN Implementers(tbl, e.l) \cup Implementers(tbl, e.r)
    ELSE {ti.sub_type : ti \in tbl[e.name]}

(* the instantiations of e that get_trait_impls gives for the type t *)
Instantiations(tbl, e, t) ==
    {ti.sup_trait : ti \in {x \in UNION get_trait_impls(tbl, e) : x.sub_type = t}}

(* C19: get_trait_impls of an intersection `L and R` returns exactly one    *)
(* entry for each type that implements both L and R, pairing the type with  *)
(* the intersection of an instantiation of L and an instantiation of R that *)
(* the type implements, and no entry for a type that implements only one    *)
(* side; `Add and Sub` over {Int: Add(Int), Int: Sub(Int), Bool: Add(Bool)} *)
(* gives exactly {Int: Add(Int) and Sub(Int)}.                              *)
C19_IntersectionImpls ==
    traitQuery.tag = "And" =>
        LET both == Implementers(traitImpls, traitQuery.l) \cap Implementers(traitImpls, traitQuery.r)
        IN  /\ {ti.sub_type : ti \in traitResult} = both
            /\ Cardinality(traitResult) = Cardinality(both)
            /\ \A ti \in traitResult :
                    \E li \in Instantiations(traitImpls, traitQuery.l, ti.sub_type),
                       ri \in Instantiations(traitImpls, traitQuery.r, ti.sub_type) :
                        ti.sup_trait = intersection(li, ri)
            /\ (traitImpls = ExampleTable
                    /\ traitQuery = [tag |-> "And", l |-> Trait("Add"), r |-> Trait("Sub")]) =>
                traitResult = {TraitImpl("Int", AndType(Poly("Add", "Int"), Poly("Sub", "Int")))}

(* `Add and Sub` was looked up in the table of the example *)
C19_Witness ==
    /\ traitImpls = ExampleTable
    /\ traitQuery = [tag |-> "And", l |-> Trait("Add"), r |-> Trait("Sub")]
    /\ traitResult = {TraitImpl("Int", AndType(Poly("Add", "Int"), Poly("Sub", "Int")))}

(* ---------------- resolve_overload (context/inquire.rs) ---------------- *)

(* the types of parameters and arguments *)
ParamTys == {"Nat", "Int", "Str", "Obj"}

(* a signature, by the types of its positional parameters *)
Signatures == SeqsUpTo(ParamTys, MaxParams)

(* Type::intersection_types : the signatures the callee type intersects, *)
(* each of them once                                                     *)
Instances ==
    {ms \in UNION {[1 .. n -> Signatures] : n \in 1 .. MaxMembers} :
        \A i, j \in 1 .. Len(ms) : i # j => ms[i] # ms[j]}

NoResolution == [kind |-> "None", t |-> <<>>, candidates |-> <<>>]

(* Ok(ty) *)
Resolved(ty) == [kind |-> "Ok", t |-> ty, candidates |-> <<>>]

(* TyCheckError::overload_error *)
overload_error(params, intersecs) == [kind |-> "Err", t |-> params, candidates |-> intersecs]

(* subr_t(SubrKind::Proc, the argument types, None, [], Obj) *)
input_t(argts) ==
    [kind |-> "Proc", non_default_params |-> argts, default_params |-> <<>>, return_t |-> "Obj"]

(* Context::subtype_of for a signature and the type of a call: the call's *)
(* arguments are as many as the parameters and each is a subtype of its   *)
(* parameter's type                                                       *)
subr_subtype_of(ty, in_t) ==
    /\ Len(ty) = Len(in_t.non_default_params)
    /\ \A i \in 1 .. Len(ty) : subtype_of(in_t.non_default_params[i], ty[i])

(* resolve_overload, line 859-863 : the first member the call's type fits *)
first_match(intersecs, in_t) ==
    LET fits == {i \in 1 .. Len(intersecs) : subr_subtype_of(intersecs[i], in_t)}
    IN  IF fits = {} THEN 0 ELSE SetMin(fits)

(* Context::resolve_overload; a callee type of one signature is returned as it is *)
resolve_overload(inst, argts) ==
    IF Len(inst) = 1 THEN Resolved(inst[1])
    ELSE LET i == first_match(inst, input_t(argts))
         IN  IF i # 0 THEN Resolved(inst[i])
             ELSE overload_error(input_t(argts).non_default_params, inst)

LIdle == instance = <<>> /\ pos_args = <<>> /\ resolution = NoResolution

LInit == instance \in Instances /\ pos_args \in Signatures /\ resolution = NoResolution

ResolveOverload ==
    /\ resolution = NoResolution
    /\ resolution' = resolve_overload(instance, pos_args)
    /\ UNCHANGED <<instance, pos_args>>

LNext == ResolveOverload /\ UNCHANGED <<pvars, rvars, cvars, avars, nvars, svars, tvars, mvars, hvars, gvars, kvars>>

(* the members of the callee type that accept the argument types *)
Accepting == {i \in 1 .. Len(instance) : subr_subtype_of(instance[i], input_t(pos_args))}

(* C20: when the callee type intersects several signatures, resolve_overload *)
(* returns a member only if it is the one member that accepts the argument   *)
(* types; when no member or more than one accepts them it returns the        *)
(* overload error that lists all the signatures.                             *)
C20_UniqueOverload ==
    (resolution # NoResolution /\ Len(instance) >= 2) =>
        IF Cardinality(Accepting) = 1
        THEN resolution = Resolved(instance[SetMin(Accepting)])
        ELSE resolution.kind = "Err" /\ resolution.candidates = instance

(* ---------------- min_type / max_type (context/inquire.rs) ---------------- *)

NoneT == [some |-> FALSE, t |-> ""]

SomeT(t) == [some |-> TRUE, t |-> t]

NotAsked == [some |-> FALSE, t |-> "unset"]

(* min_type, line 2118-2130 : the loop from the i-th type on, min being opt_min *)
RECURSIVE min_loop(_, _, _)
min_loop(ts, i, min) ==
    IF i > Len(ts) THEN SomeT(min)
    ELSE IF subtype_of(min, ts[i]) THEN min_loop(ts, i + 1, min)
    ELSE IF subtype_of(ts[i], min) THEN min_loop(ts, i + 1, ts[i])
    ELSE NoneT

(* Context::min_type *)
min_type(ts) == IF ts = <<>> THEN NoneT ELSE min_loop(ts, 2, ts[1])

(* max_type, line 2144-2156 *)
RECURSIVE max_loop(_, _, _)
max_loop(ts, i, max) ==
    IF i > Len(ts) THEN SomeT(max)
    ELSE IF supertype_of(max, ts[i]) THEN max_loop(ts, i + 1, max)
    ELSE IF supertype_of(ts[i], max) THEN max_loop(ts, i + 1, ts[i])
    ELSE NoneT

(* Context::max_type *)
max_type(ts) == IF ts = <<>> THEN NoneT ELSE max_loop(ts, 2, ts[1])

MIdle == typesArg = <<>> /\ minRes = NotAsked /\ maxRes = NotAsked

MInit == typesArg \in SeqsUpTo(Tys, MaxTypes) /\ minRes = NotAsked /\ maxRes = NotAsked

MinType ==
    /\ minRes = NotAsked
    /\ minRes' = min_type(typesArg)
    /\ UNCHANGED <<typesArg, maxRes>>

MaxType ==
    /\ maxRes = NotAsked
    /\ maxRes' = max_type(typesArg)
    /\ UNCHANGED <<typesArg, minRes>>

MNext ==
    \/ MinType /\ UNCHANGED <<pvars, rvars, cvars, avars, nvars, svars, tvars, lvars, hvars, gvars, kvars>>
    \/ MaxType /\ UNCHANGED <<pvars, rvars, cvars, avars, nvars, svars, tvars, lvars, hvars, gvars, kvars>>

(* the given types that are a subtype of every given type *)
Least == {m \in SeqRan(typesArg) : \A t \in SeqRan(typesArg) : subtype_of(m, t)}

(* the given types that are a supertype of every given type *)
Greatest == {m \in SeqRan(typesArg) : \A t \in SeqRan(typesArg) : supertype_of(m, t)}

(* C25: min_type returns Some(m) exactly when some given type m is a       *)
(* subtype of every given type, and None when there is none, in whatever   *)
(* order the types are given (min_type([Int, Nat]) = Nat,                  *)
(* min_type([Int, Str, Nat]) = None); max_type is the dual.                *)
C25_MinMaxType ==
    /\ minRes # NotAsked =>
            IF Least = {} THEN minRes = NoneT ELSE minRes.some /\ minRes.t \in Least
    /\ maxRes # NotAsked =>
            IF Greatest = {} THEN maxRes = NoneT ELSE maxRes.some /\ maxRes.t \in Greatest

(* ---------------- match / match! (context/inquire.rs) ---------------- *)

(* the types of scrutinees, patterns and arm results *)
MatchTys == {"Int", "Nat", "Str"}

(* A type here is Never, a type of MatchTys, or a union of such: the set   *)
(* of its members, none a subtype of another. Never is the empty union.    *)
NeverT == {}

MonoT(name) == IF name = "Never" THEN NeverT ELSE {name}

(* Context::union : Never or T => T, and a member that is a subtype of      *)
(* another member is absorbed                                              *)
union(l, r) ==
    {t \in l \cup r : ~\E u \in l \cup r : u # t /\ subtype_of(t, u)}

(* Context::sub_unify on types without free variables: sub is a subtype of *)
(* sup, a union being above a type when one of its members is              *)
sub_unify(sub, sup) == \A t \in sub : \E u \in sup : subtype_of(t, u)

(* an arm: a lambda with its parameters and the types of its signature, or *)
(* another expression                                                      *)
NotLambda == [lambda |-> FALSE, non_defaults |-> 0, defaults |-> 0, param_t |-> "Str", return_t |-> "Str"]

BadLambdas ==
    {[lambda |-> TRUE, non_defaults |-> n[1], defaults |-> n[2], param_t |-> "Int", return_t |-> "Int"] :
        n \in {<<0, 0>>, <<2, 0>>, <<0, 1>>, <<1, 1>>}}

GoodLambdas ==
    [lambda : {TRUE}, non_defaults : {1}, defaults : {0}, param_t : MatchTys, return_t : MatchTys]

Arms == {NotLambda} \cup BadLambdas \cup GoodLambdas

(* a call: the callee's name, pos_args = <<scrutinee>> \o arms, and the   *)
(* number of keyword arguments                                            *)
MatchCalls ==
    [name : {"match", "match!"}, target : MatchTys \cup {"Never"},
     arms : SeqsUpTo(Arms, MaxArms), kw : 0 .. 1]

NoMatchCall == [name |-> "none", target |-> "Never", arms |-> <<>>, kw |-> 0]

NotMatched == [kind |-> "NotCalled"]

MatchErr(e, nth) == [kind |-> "Err", err |-> e, nth |-> nth]

(* TyCheckError::match_error(.., match_target_expr_t, union_pat_t, arm_ts) *)
match_error(target, union_pat_t, arm_ts) ==
    [kind |-> "Err", err |-> "match_error", nth |-> 0,
     expr_t |-> target, union_pat_t |-> union_pat_t, arm_ts |-> arm_ts]

(* the type of a lambda arm, hir::Expr::ref_t *)
ArmT(arm) == [param_t |-> arm.param_t, return_t |-> arm.return_t]

(* line 324-335 : the first arm that is not a lambda, 0 when all are *)
FirstNotLambda(arms) ==
    IF \A i \in 1 .. Len(arms) : arms[i].lambda THEN 0
    ELSE SetMin({i \in 1 .. Len(arms) : ~arms[i].lambda})

(* Params::len *)
params_len(arm) == arm.non_defaults + arm.defaults

(* line 340-373 : the loop over the arms from the i-th on *)
RECURSIVE arm_loop(_, _, _, _)
arm_loop(arms, i, union_pat_t, arm_ts) ==
    IF i > Len(arms) THEN [kind |-> "Ok", union_pat_t |-> union_pat_t, arm_ts |-> arm_ts]
    ELSE IF arms[i].defaults # 0 THEN MatchErr("default_param_error", i)
    ELSE IF params_len(arms[i]) # 1 THEN MatchErr("param_error", i)
    ELSE arm_loop(arms, i + 1, union(union_pat_t, MonoT(arms[i].param_t)),
                  Append(arm_ts, arms[i].param_t))

(* line 399-402 : the union of the return types of the arms from the i-th on *)
RECURSIVE return_loop(_, _, _)
(* the same with the union restarted at each arm *)
return_loop_last_only(arms, i, return_t) ==
    IF i > Len(arms) THEN return_t
    ELSE return_loop(arms, i + 1, MonoT(arms[i].return_t))

return_loop(arms, i, return_t) ==
    IF i > Len(arms) THEN return_t
    ELSE return_loop(arms, i + 1, union(return_t, MonoT(arms[i].return_t)))

(* Context::get_match_call_t *)
get_match_call_t(kind, target, arms, kw) ==
    IF kw # 0 THEN MatchErr("default_param_error", 0)
    ELSE IF FirstNotLambda(arms) # 0 THEN MatchErr("type_mismatch_error", FirstNotLambda(arms))
    ELSE LET r == arm_loop(arms, 1, NeverT, <<>>)
         IN  IF r.kind = "Err" THEN r
             ELSE IF ~sub_unify(MonoT(target), r.union_pat_t)
                  THEN match_error(target, r.union_pat_t, r.arm_ts)
             ELSE IF arms = <<>> THEN MatchErr("args_missing_error", 0)
             ELSE [kind |-> "Ok",
                   t |-> [kind |-> kind,
                          params |-> <<target>> \o [i \in 1 .. Len(arms) |-> ArmT(arms[i])],
                          return_t |-> return_loop(arms, 2, MonoT(arms[1].return_t))]]

(* Context::get_call_t, line 1830-1846 : the callee is the private name    *)
(* match or match!                                                         *)
get_call_t(call) ==
    IF call.name = "match" THEN get_match_call_t("Func", call.target, call.arms, call.kw)
    ELSE get_match_call_t("Proc", call.target, call.arms, call.kw)

HIdle == matchCall = NoMatchCall /\ matchRes = NotMatched

HInit == matchCall \in MatchCalls /\ matchRes = NotMatched

GetCallT ==
    /\ matchRes = NotMatched
    /\ matchRes' = get_call_t(matchCall)
    /\ UNCHANGED matchCall

HNext == GetCallT /\ UNCHANGED <<pvars, rvars, cvars, avars, nvars, svars, tvars, lvars, mvars, gvars, kvars>>

(* the arms of the call *)
CallArms == {matchCall.arms[i] : i \in 1 .. Len(matchCall.arms)}

(* the call is one the construct rejects for its form *)
Malformed ==
    \/ matchCall.kw # 0
    \/ \E a \in CallArms : ~a.lambda \/ a.defaults # 0 \/ a.non_defaults + a.defaults # 1

(* the union of a set of types *)
UnionOf(S) == {t \in S : t # "Never" /\ ~\E u \in S : u # t /\ subtype_of(t, u)}

(* the scrutinee's type is a subtype of the union of the patterns *)
Covered ==
    matchCall.target = "Never"
        \/ \E a \in CallArms : subtype_of(matchCall.target, a.param_t)

(* C26: a match / match! with a keyword argument, an arm that is not a     *)
(* lambda, an arm with a default parameter or an arm without exactly one   *)
(* parameter is rejected; otherwise, when the scrutinee's type is not a    *)
(* subtype of the union of the arms' parameter types the result is the     *)
(* match error naming every arm's type; otherwise the result's return type *)
(* is the union of the return types of all the arms.                       *)
C26_MatchCall ==
    matchRes # NotMatched =>
        /\ Malformed => matchRes.kind = "Err" /\ matchRes.err # "match_error"
        /\ (~Malformed /\ ~Covered) =>
                matchRes = match_error(matchCall.target,
                                       UnionOf({a.param_t : a \in CallArms}),
                                       [i \in 1 .. Len(matchCall.arms) |-> matchCall.arms[i].param_t])
        /\ (~Malformed /\ Covered /\ matchCall.arms # <<>>) =>
                /\ matchRes.kind = "Ok"
                /\ matchRes.t.return_t = UnionOf({a.return_t : a \in CallArms})
                /\ matchRes.t.kind = (IF matchCall.name = "match" THEN "Func" ELSE "Proc")

(* a match of two arms with unrelated results has succeeded *)
C26_Witness ==
    /\ matchRes # NotMatched
    /\ matchRes.kind = "Ok"
    /\ Len(matchCall.arms) = 2
    /\ matchRes.t.return_t = {"Int", "Str"}

(* ---------------- SharedCompilerResource (module/global.rs) ---------------- *)

(* A Shared<T> is a reference to a cell: cloning it yields another         *)
(* reference to the same cell. The cells are named after the resource      *)
(* that created them.                                                      *)
ResIds == 0 .. MaxResources - 1

NoResource ==
    [live |-> FALSE, path |-> RootPath, mod_cache |-> 0, py_mod_cache |-> 0, index |-> 0,
     graph |-> 0, promises_graph |-> 0, promises |-> 0]

EmptyTable == [p \in Paths |-> "Absent"]

EmptyHeap ==
    [mod_cache |-> [c \in ResIds |-> {}], py_mod_cache |-> [c \in ResIds |-> {}],
     index |-> [c \in ResIds |-> {}], graph |-> [c \in ResIds |-> {}],
     promises |-> [c \in ResIds |-> EmptyTable]]

NoOp == [op |-> "none", res |-> 0, path |-> RootPath]

(* SharedCompilerResource::new, line 32-51 : the resource n with cells of its own *)
new(n) ==
    [live |-> TRUE, path |-> RootPath, mod_cache |-> n, py_mod_cache |-> n, index |-> n,
     graph |-> n, promises_graph |-> n, promises |-> n]

(* SharedCompilerResource::inherit, line 53-57 *)
inherit(res, path) == [res EXCEPT !.path = path]

(* clear_all that also empties the promise table *)
clear_all_with_promises(h, res) ==
    [h EXCEPT !.mod_cache[res.mod_cache] = {},
              !.py_mod_cache[res.py_mod_cache] = {},
              !.index[res.index] = {},
              !.graph[res.graph] = {},
              !.promises[res.promises] = EmptyTable]

(* SharedCompilerResource::clear_all, line 59-67 *)
clear_all(h, res) ==
    [h EXCEPT !.mod_cache[res.mod_cache] = {},
              !.py_mod_cache[res.py_mod_cache] = {},
              !.index[res.index] = {},
              !.graph[res.graph] = {}]

(* SharedCompilerResource::clear, line 69-74 *)
clear(h, res, path) ==
    [h EXCEPT !.mod_cache[res.mod_cache] = @ \ {path},
              !.py_mod_cache[res.py_mod_cache] = @ \ {path},
              !.index[res.index] = @ \ {path},
              !.graph[res.graph] = {e \in @ : e[1] # path}]

KIdle ==
    /\ resources = [n \in ResIds |-> NoResource]
    /\ heap = EmptyHeap
    /\ lastOp = NoOp

KInit ==
    /\ resources = [n \in ResIds |-> IF n = 0 THEN new(0) ELSE NoResource]
    /\ heap = EmptyHeap
    /\ lastOp = NoOp

Live == {n \in ResIds : resources[n].live}

(* inherit(path), for the worker of a module that has no resource yet *)
Inherit(r, p) ==
    /\ r \in Live
    /\ \A n \in Live : resources[n].path # p
    /\ \E n \in ResIds \ Live :
        /\ \A m \in ResIds \ Live : n <= m
        /\ resources' = [resources EXCEPT ![n] = inherit(resources[r], p)]
    /\ lastOp' = NoOp
    /\ UNCHANGED heap

(* the worker of the module p is registered through the resource r, and the *)
(* import is recorded in the module graph                                   *)
ResInsert(r, p) ==
    /\ r \in Live
    /\ p # resources[r].path
    /\ heap.promises[resources[r].promises][p] = "Absent"
    /\ heap' = [heap EXCEPT !.promises[resources[r].promises][p] = "Running",
                            !.graph[resources[r].promises_graph] = @ \cup {<<resources[r].path, p>>}]
    /\ lastOp' = NoOp
    /\ UNCHANGED resources

(* the worker of the module of r ends: the module is in a cache and in the *)
(* index, and a join on it leaves its promise Finished                     *)
ResFinish(r, py) ==
    /\ r \in Live
    /\ heap.promises[resources[r].promises][resources[r].path] = "Running"
    /\ LET res == resources[r]
       IN  heap' = [heap EXCEPT !.promises[res.promises][res.path] = "Finished",
                                !.mod_cache[res.mod_cache] = IF py THEN @ ELSE @ \cup {res.path},
                                !.py_mod_cache[res.py_mod_cache] = IF py THEN @ \cup {res.path} ELSE @,
                                !.index[res.index] = @ \cup {res.path}]
    /\ lastOp' = NoOp
    /\ UNCHANGED resources

ClearAll(r) ==
    /\ r \in Live
    /\ heap' = clear_all(heap, resources[r])
    /\ lastOp' = [op |-> "clear_all", res |-> r, path |-> RootPath]
    /\ UNCHANGED resources

Clear(r, p) ==
    /\ r \in Live
    /\ heap' = clear(heap, resources[r], p)
    /\ lastOp' = [op |-> "clear", res |-> r, path |-> p]
    /\ UNCHANGED resources

(* what the operations on a resource leave alone *)
KFrame == UNCHANGED <<pvars, rvars, cvars, evars, gvars>>

KNext ==
    \/ \E r \in ResIds, p \in Paths : Inherit(r, p) /\ KFrame
    \/ \E r \in ResIds, p \in Paths : ResInsert(r, p) /\ KFrame
    \/ \E r \in ResIds, py \in BOOLEAN : ResFinish(r, py) /\ KFrame
    \/ \E r \in ResIds : ClearAll(r) /\ KFrame
    \/ \E r \in ResIds, p \in Paths : Clear(r, p) /\ KFrame

(* the promise table that the resource n refers to *)
TableOf(n) == heap.promises[resources[n].promises]

(* C30: clear_all and clear(path) leave the promise table as it is (every  *)
(* path keeps its state) while the module caches, the index and the module *)
(* graph are emptied or lose path; every resource obtained by inherit has  *)
(* the promise table and the module graph of the resource it comes from.   *)
C30_ClearKeepsPromises ==
    /\ [](\A n \in Live :
            /\ resources[n].promises = resources[0].promises
            /\ resources[n].graph = resources[0].graph
            /\ resources[n].promises_graph = resources[0].graph)
    /\ [][lastOp'.op \in {"clear_all", "clear"} =>
            \A n \in Live :
                /\ heap'.promises[resources[n].promises] = TableOf(n)
                /\ LET q == lastOp'.path
                       gone(S) == IF lastOp'.op = "clear_all" THEN S = {} ELSE q \notin S
                   IN  /\ gone(heap'.mod_cache[resources[n].mod_cache])
                       /\ gone(heap'.py_mod_cache[resources[n].py_mod_cache])
                       /\ gone(heap'.index[resources[n].index])
                       /\ gone({e[1] : e \in heap'.graph[resources[n].graph]})]_vars

(* clear_all was called through an inherited resource while a module was  *)
(* registered and another finished: the table still holds both             *)
C30_Witness ==
    /\ lastOp.op = "clear_all" /\ lastOp.res # 0
    /\ \E p, q \in Paths : TableOf(0)[p] = "Running" /\ TableOf(0)[q] = "Finished"
    /\ heap.graph[resources[0].graph] = {}

(* ---------------- specifications ---------------- *)

(* the pure operations are not in use *)
EIdle == AIdle /\ NIdle /\ SIdle /\ TIdle /\ LIdle /\ MIdle /\ HIdle /\ GIdle /\ KIdle

NoScripts == [t \in Threads |-> <<>>]

(* the promise table under any interleaving of its operations *)
Init == PInit /\ script = NoScripts /\ RInit /\ CIdle /\ EIdle

Next ==
    \/ \E t \in Threads, p \in Paths : Import(t, p) /\ UNCHANGED script
    \/ \E t \in Threads, p \in Paths : Spawn(t, p) /\ UNCHANGED script
    \/ \E t \in Threads : InsertCheck(t)
    \/ \E t \in Threads : InsertWrite(t)
    \/ \E t \in Threads, p \in Paths : BeginJoin(t, p) /\ UNCHANGED script
    \/ \E t \in Threads : JoinSpin(t)
    \/ \E t \in Threads : JoinTake(t)
    \/ \E t \in Threads, kind \in {"join_children", "join_all"} :
            BeginReap(t, kind) /\ UNCHANGED script
    \/ \E t \in Threads : JcCheck(t)
    \/ \E t \in Threads : JcRestore(t)
    \/ \E t \in Threads : JcBlock(t)
    \/ \E t \in Threads : JcFinish(t)
    \/ \E t \in Threads : WorkerDone(t) /\ UNCHANGED script
    \/ \E t \in Threads : WorkerPanic(t) /\ UNCHANGED script

Spec == Init /\ [][Next]_vars

(* name resolution over every Context tree within the bound *)
InitResolve == PInit /\ script = NoScripts /\ RInit /\ CIdle /\ EIdle

SpecResolve == InitResolve /\ [][RNext]_vars

(* call substitution over every signature and call within the bounds *)
InitCall == PInit /\ script = NoScripts /\ RInit /\ CInit /\ EIdle

SpecCall == InitCall /\ [][CNext]_vars

(* attribute lookup over every object type and build within the bounds *)
InitAttr == PInit /\ script = NoScripts /\ RInit /\ CIdle /\ AInit /\ NIdle /\ SIdle /\ TIdle /\ LIdle /\ MIdle /\ HIdle /\ GIdle /\ KIdle

SpecAttr == InitAttr /\ [][ANext]_vars

(* the steps of the attribute lookup over everything the later steps may meet *)
InitSteps ==
    PInit /\ script = NoScripts /\ RInit /\ CIdle /\ StepsInit /\ NIdle /\ SIdle /\ TIdle /\ LIdle /\ MIdle /\ HIdle /\ GIdle /\ KIdle

SpecSteps == InitSteps /\ [][ANext]_vars

(* the super type Contexts of every type over every registry within the bounds *)
InitSuper == PInit /\ script = NoScripts /\ RInit /\ CIdle /\ AIdle /\ NInit /\ SIdle /\ TIdle /\ LIdle /\ MIdle /\ HIdle /\ GIdle /\ KIdle

SpecSuper == InitSuper /\ [][NNext]_vars

(* sort_types over every sequence of types within the bound and the documented example *)
InitSort == PInit /\ script = NoScripts /\ RInit /\ CIdle /\ AIdle /\ NIdle /\ SInit /\ TIdle /\ LIdle /\ MIdle /\ HIdle /\ GIdle /\ KIdle

SpecSort == InitSort /\ [][SNext]_vars

(* get_trait_impls over every table and trait expression within the bound *)
InitTrait == PInit /\ script = NoScripts /\ RInit /\ CIdle /\ AIdle /\ NIdle /\ SIdle /\ TInit /\ LIdle /\ MIdle /\ HIdle /\ GIdle /\ KIdle

SpecTrait == InitTrait /\ [][TNext]_vars

(* resolve_overload over every callee type and call within the bounds *)
InitOverload ==
    PInit /\ script = NoScripts /\ RInit /\ CIdle /\ AIdle /\ NIdle /\ SIdle /\ TIdle /\ LInit /\ MIdle /\ HIdle /\ GIdle /\ KIdle

SpecOverload == InitOverload /\ [][LNext]_vars

(* min_type and max_type over every sequence of types within the bound *)
InitMinMax ==
    PInit /\ script = NoScripts /\ RInit /\ CIdle /\ AIdle /\ NIdle /\ SIdle /\ TIdle /\ LIdle /\ MInit /\ HIdle /\ GIdle /\ KIdle

SpecMinMax == InitMinMax /\ [][MNext]_vars

(* get_call_t over every match / match! call within the bounds *)
InitMatch ==
    PInit /\ script = NoScripts /\ RInit /\ CIdle /\ AIdle /\ NIdle /\ SIdle /\ TIdle /\ LIdle /\ MIdle /\ HInit /\ GIdle /\ KIdle

SpecMatch == InitMatch /\ [][HNext]_vars

(* get_mod_with_path among the threads that register, compile and join modules *)
InitMod == PInit /\ script = NoScripts /\ RInit /\ CIdle /\ EIdle

NextMod ==
    \/ \E t \in Threads, p \in Paths : Outside(t) /\ Spawn(t, p) /\ UNCHANGED script
    \/ \E t \in Threads : InsertCheck(t)
    \/ \E t \in Threads : InsertWrite(t)
    \/ \E t \in Threads, p \in Paths : GetModWithPath(t, p)
    \/ \E t \in Threads : JoinSpin(t)
    \/ \E t \in Threads : JoinTake(t)
    \/ \E t \in Threads : JcCheck(t)
    \/ \E t \in Threads : JcRestore(t)
    \/ \E t \in Threads : JcBlock(t)
    \/ \E t \in Threads : JcFinish(t)
    \/ \E t \in Threads : GetModRead(t)
    \/ \E t \in Threads, py \in BOOLEAN : CacheModule(t, py)
    \/ \E t \in Threads : Outside(t) /\ WorkerDone(t) /\ UNCHANGED script

SpecMod == InitMod /\ [][NextMod]_vars

(* insert under any interleaving, with a thread more, so that two threads *)
(* can register a worker for the same path at once                        *)
InitInsert ==
    /\ status = [t \in Threads |-> IF t = MainThread THEN "running" ELSE "unspawned"]
    /\ PStart /\ script = NoScripts /\ RInit /\ CIdle /\ EIdle

NextInsert ==
    \/ \E t \in Threads, p \in Paths : Spawn(t, p) /\ UNCHANGED script
    \/ \E t \in Threads : InsertCheck(t)
    \/ \E t \in Threads : InsertWrite(t)
    \/ \E t \in Threads : WorkerDone(t) /\ UNCHANGED script

SpecInsert == InitInsert /\ [][NextInsert]_vars

(* the resources of a compilation: inherited, used and cleared in any order *)
InitResource ==
    PInit /\ script = NoScripts /\ RInit /\ CIdle /\ AIdle /\ NIdle /\ SIdle /\ TIdle /\ LIdle /\ MIdle /\ HIdle /\ GIdle /\ KInit

SpecResource == InitResource /\ [][KNext]_vars

(* ---------------- the import cycle A <-> B ---------------- *)

ModA == 2
ModB == 3
WorkerA == 1
WorkerB == 2

Call(kind, path) == [kind |-> kind, path |-> path]

(* the main thread starts the worker of A; A imports B and joins it; B     *)
(* imports A and joins it, the import edge being recorded before or after  *)
(* the join                                                                *)
CycleScripts ==
    {[t \in Threads |->
        IF t = MainThread THEN <<Call("spawn", ModA)>>
        ELSE IF t = WorkerA THEN <<Call("spawn", ModB), Call("join", ModB)>>
        ELSE IF t = WorkerB THEN b
        ELSE <<>>] :
     b \in {<<Call("import", ModA), Call("join", ModA)>>,
            <<Call("join", ModA), Call("import", ModA)>>}}

InitCycle == PInit /\ script \in CycleScripts /\ RInit /\ CIdle /\ EIdle

(* the thread makes the next call of its script *)
ScriptedCall(t) ==
    /\ script[t] # <<>>
    /\ LET c == Head(script[t])
       IN  \/ c.kind = "spawn" /\ Spawn(t, c.path)
           \/ c.kind = "import" /\ Import(t, c.path)
           \/ c.kind = "join" /\ BeginJoin(t, c.path)
    /\ script' = [script EXCEPT ![t] = Tail(@)]

(* a worker that made all its calls returns *)
ScriptedDone(t) ==
    /\ script[t] = <<>>
    /\ WorkerDone(t)
    /\ UNCHANGED script

ThreadStep(t) ==
    \/ ScriptedCall(t)
    \/ ScriptedDone(t)
    \/ InsertCheck(t)
    \/ InsertWrite(t)
    \/ JoinSpin(t)
    \/ JoinTake(t)
    \/ JcCheck(t)
    \/ JcRestore(t)
    \/ JcBlock(t)
    \/ JcFinish(t)

NextCycle == \E t \in Threads : ThreadStep(t)

(* every thread that can take a step eventually takes one *)
FairCycle == \A t \in Threads : WF_vars(ThreadStep(t))

SpecCycle == InitCycle /\ [][NextCycle]_vars /\ FairCycle

(* C2: with A importing B and B importing A, each worker joining the other, *)
(* under fair scheduling both workers eventually terminate and from then on *)
(* each of the two promises is Finished or Running (cycle-tolerated); no    *)
(* promise stays Joining.                                                   *)
C2_CycleTerminates ==
    <>[](/\ status[WorkerA] = "done" /\ status[WorkerB] = "done"
         /\ \A t \in Threads : pc[t] = "idle"
         /\ promises[ModA].st \in {"Finished", "Running"}
         /\ promises[ModB].st \in {"Finished", "Running"}
         /\ \A p \in Paths : promises[p].st # "Joining")

(* both workers of the cycle returned; B waited for A, A passed over B      *)
C2_Witness ==
    /\ {<<ModA, ModB>>, <<ModB, ModA>>} \subseteq graph
    /\ status[WorkerA] = "done" /\ status[WorkerB] = "done"
    /\ script = NoScripts
    /\ promises[ModA] = Finished
    /\ promises[ModB] = Running(WorkerA, WorkerB)

====
